---- MODULE Spec2Model ----
(***************************************************************************)
(* Model of agent/graph.py: the confined file tools  (safe_path_for_project,*)
(* write_file, read_file, list_files, run_cmd), the five LangGraph nodes    *)
(* (planner, approval_planner, architect, approval_architect, coder), the   *)
(* three routing functions and the session loop of main().                  *)
(*                                                                          *)
(* Two specifications share the variables:                                  *)
(*   SpecStore  the file tools applied to a small file tree;                *)
(*   Spec       the session loop driving the compiled graph.                *)
(***************************************************************************)
EXTENDS Integers, Sequences, FiniteSets, TLC

VARIABLES
    \* ---- the file tree and the last tool call (both specifications)
    fs,                 \* absolute path -> node; DOMAIN fs = the existing paths
    call,               \* the last file-tool call: its arguments and its outcome
    \* ---- main()
    pc,                 \* "input" (main's prompt), a node name, or "exit"
    outcome,            \* what main printed for the last run: NoStr, "complete", "error"
    exc,                \* the exception that ended the last run (NoExc: none)
    supersteps,         \* the supersteps (node executions) of the run so far
    \* ---- GraphState (None = key absent or None)
    user_prompt, plan, task_plan, coder_state, status,
    edit_request, previous_plan, previous_task_plan,
    planner_approved, architect_approved,
    \* ---- what the run exchanged with the human and with the backend
    visit,              \* number of approval checkpoints visited in this run
    shown,              \* the record the last checkpoint displayed
    answer,             \* the human's decision at the last checkpoint
    request,            \* the last request sent to the backend
    revisedAt,          \* the checkpoint visits whose edit went into a revision request
    invocations,        \* coder_agent invocations that returned in this run
    processed,          \* the steps coder_agent sent to the backend, in order
    elapsed,            \* the elapsed time coder_agent measured last
    \* ---- main's last input, and records of what the session was fed
    user_input,         \* main, line 443: the line read at "User: ", stripped
    response,           \* the backend's last answer to the planner or the architect
    log,                \* the inputs consumed and the stages entered by this run
    prior,              \* the log of the run before this one
    \* ---- the sample game of generated_project: Board and GameController
    grid,               \* board.grid: cell -> "X", "O" or NoStr (None)
    game_state,         \* 'menu', 'playing' or 'game_over'
    scores,             \* the scores dictionary: human, ai, draws
    current_player,     \* 'X' or 'O'
    game_mode,          \* 'human_vs_ai' or 'human_vs_human'
    player_types,       \* 'X' / 'O' -> PLAYER_HUMAN or PLAYER_AI
    running,            \* main.py: the flag of the main loop
    frame,              \* main.py: "events" while the loop runs, "quit" after it
    finished,           \* the games that reached 'game_over' so far
    ai_call             \* the last call into ai.py: function, board before, after, result

storeVars == <<fs, call>>
mainVars  == <<pc, outcome, exc, supersteps>>
graphVars == <<user_prompt, plan, task_plan, coder_state, status, edit_request,
               previous_plan, previous_task_plan, planner_approved, architect_approved>>
ioVars    == <<visit, shown, answer, request, revisedAt, invocations, processed, elapsed>>
histVars  == <<user_input, response, log, prior>>
gameVars  == <<grid, game_state, scores, current_player, game_mode, player_types,
               running, frame, finished, ai_call>>
vars      == <<storeVars, mainVars, graphVars, ioVars, histVars, gameVars>>

\* Python's None: for a key that holds a record, and for one that holds a str
None == [kind |-> "None"]
NoStr == "None"

(***************************************************************************)
(* Paths.  An absolute path is the sequence of its components; a path      *)
(* argument (a Python str) is [abs, segs]: "../x" is [FALSE, <<"..","x">>]. *)
(***************************************************************************)

\* PROJECT_ROOT = pathlib.Path.cwd() / "generated_project"
Cwd == <<"w">>
PROJECT_ROOT == Cwd \o <<"generated_project">>

Rel(segs) == [abs |-> FALSE, segs |-> segs]
Abs(segs) == [abs |-> TRUE, segs |-> segs]

IsPrefix(a, b) == Len(a) <= Len(b) /\ SubSeq(b, 1, Len(a)) = a

\* pathlib: p.parent (the parent of the root "/" is "/")
Parent(p) == IF p = <<>> THEN <<>> ELSE SubSeq(p, 1, Len(p) - 1)

\* pathlib: p.parents, every proper ancestor of p
Parents(p) == { SubSeq(p, 1, n) : n \in 0..(Len(p) - 1) }

\* PROJECT_ROOT / path: an absolute right operand replaces the left one
Join(base, path) == IF path.abs THEN path.segs ELSE base \o path.segs

Dir == [kind |-> "dir", content |-> <<>>, target |-> <<>>]
FileOf(c) == [kind |-> "file", content |-> c, target |-> <<>>]
LinkTo(t) == [kind |-> "link", content |-> <<>>, target |-> t]

Exists(tree, p) == p \in DOMAIN tree
IsLink(tree, p) == Exists(tree, p) /\ tree[p].kind = "link"
IsDir(tree, p)  == Exists(tree, p) /\ tree[p].kind = "dir"
IsFile(tree, p) == Exists(tree, p) /\ tree[p].kind = "file"

\* Path.resolve(): "." dropped, ".." pops a component, a symlink is replaced by
\* its (absolute) target; components that do not exist are kept (strict=False).
RECURSIVE ResolveFrom(_, _, _)
ResolveFrom(tree, cur, rest) ==
    IF rest = <<>> THEN cur
    ELSE LET s == Head(rest) IN
         IF s = "." THEN ResolveFrom(tree, cur, Tail(rest))
         ELSE IF s = ".." THEN ResolveFrom(tree, Parent(cur), Tail(rest))
         ELSE IF IsLink(tree, Append(cur, s))
              THEN ResolveFrom(tree, <<>>, tree[Append(cur, s)].target \o Tail(rest))
              ELSE ResolveFrom(tree, Append(cur, s), Tail(rest))

Resolve(tree, p) == ResolveFrom(tree, <<>>, p)

\* Faulty variant of the test of line 68: the third conjunct
\* (PROJECT_ROOT.resolve() != p) is left out, so the root itself is refused.
EscapesNoRootCase(root, p) == root \notin Parents(p) /\ root # Parent(p)

\* safe_path_for_project, line 68: the condition under which it raises
Escapes(root, p) == root \notin Parents(p) /\ root # Parent(p) /\ root # p

\* safe_path_for_project: [ok |-> FALSE] stands for the ValueError
safe_path_for_project(tree, path) ==
    LET p == Resolve(tree, Join(PROJECT_ROOT, path))
    IN IF Escapes(Resolve(tree, PROJECT_ROOT), p)
       THEN [ok |-> FALSE, p |-> p]
       ELSE [ok |-> TRUE, p |-> p]

(***************************************************************************)
(* File contents are sequences of characters.  open(p, "w") and            *)
(* open(p, "r") are text mode with newline=None: writing turns "\n" into    *)
(* os.linesep, reading turns "\r\n" and a lone "\r" into "\n".              *)
(***************************************************************************)

LF == "\n"
CR == "\r"
\* os.linesep of the platform the tool runs on (POSIX)
LineSep == <<LF>>

RECURSIVE EncodeText(_)
EncodeText(c) ==
    IF c = <<>> THEN <<>>
    ELSE (IF Head(c) = LF THEN LineSep ELSE <<Head(c)>>) \o EncodeText(Tail(c))

RECURSIVE DecodeText(_)
DecodeText(c) ==
    IF c = <<>> THEN <<>>
    ELSE IF Head(c) = CR
         THEN IF Len(c) >= 2 /\ c[2] = LF
              THEN <<LF>> \o DecodeText(Tail(Tail(c)))
              ELSE <<LF>> \o DecodeText(Tail(c))
         ELSE <<Head(c)>> \o DecodeText(Tail(c))

Returned(v) == [status |-> "ok", exc |-> NoStr, value |-> v]
Raised(e) == [status |-> "raise", exc |-> e, value |-> <<>>]

\* the directories Path.mkdir(parents=True) has to create for p
MissingDirs(tree, p) == { q \in Parents(p) \cup {p} : ~Exists(tree, q) }

\* p.parent.mkdir(parents=True, exist_ok=True): fails when an ancestor is a file
MkdirFails(tree, d) == \E q \in Parents(d) \cup {d} : Exists(tree, q) /\ ~IsDir(tree, q)

Mkdirs(tree, d) ==
    [q \in DOMAIN tree \cup MissingDirs(tree, d) |->
        IF q \in DOMAIN tree THEN tree[q] ELSE Dir]

PutFile(tree, p, c) ==
    [q \in DOMAIN tree \cup {p} |-> IF q = p THEN FileOf(EncodeText(c)) ELSE tree[q]]

\* Faulty variant of write_file: the parent directories are made from the
\* resolved path before the confinement test is applied to it.
write_file_mkdir_first(tree, path, content) ==
    LET sp == safe_path_for_project(tree, path)
        made == IF MkdirFails(tree, Parent(sp.p)) THEN tree ELSE Mkdirs(tree, Parent(sp.p))
    IN IF ~sp.ok THEN [tree |-> made, res |-> Raised("ValueError")]
       ELSE IF MkdirFails(tree, Parent(sp.p))
            THEN [tree |-> tree, res |-> Raised("FileExistsError")]
       ELSE IF IsDir(tree, sp.p)
            THEN [tree |-> tree, res |-> Raised("IsADirectoryError")]
       ELSE [tree |-> PutFile(made, sp.p, content), res |-> Returned(<<"WROTE", sp.p>>)]

\* write_file, lines 72-79
write_file(tree, path, content) ==
    LET sp == safe_path_for_project(tree, path)
    IN IF ~sp.ok THEN [tree |-> tree, res |-> Raised("ValueError")]
       ELSE IF MkdirFails(tree, Parent(sp.p))
            THEN [tree |-> tree, res |-> Raised("FileExistsError")]
       ELSE IF IsDir(tree, sp.p)
            THEN [tree |-> tree, res |-> Raised("IsADirectoryError")]
       ELSE [tree |-> PutFile(Mkdirs(tree, Parent(sp.p)), sp.p, content),
             res |-> Returned(<<"WROTE", sp.p>>)]

\* Faulty variant of read_file: the test of line 85 (p.exists()) is missing,
\* so open() raises for a path that does not exist
read_file_no_exists_test(tree, path) ==
    LET sp == safe_path_for_project(tree, path)
    IN IF ~sp.ok THEN Raised("ValueError")
       ELSE IF ~Exists(tree, sp.p) THEN Raised("FileNotFoundError")
       ELSE IF IsDir(tree, sp.p) THEN Raised("IsADirectoryError")
       ELSE Returned(DecodeText(tree[sp.p].content))

\* read_file, lines 81-88; it never changes the tree
read_file(tree, path) ==
    LET sp == safe_path_for_project(tree, path)
    IN IF ~sp.ok THEN Raised("ValueError")
       ELSE IF ~Exists(tree, sp.p) THEN Returned(<<>>)
       ELSE IF IsDir(tree, sp.p) THEN Raised("IsADirectoryError")
       ELSE Returned(DecodeText(tree[sp.p].content))

\* f.relative_to(PROJECT_ROOT)
RelativeTo(f, base) == SubSeq(f, Len(base) + 1, Len(f))

\* list_files, lines 95-102; glob("**/*") does not descend through symlinks
list_files(tree, directory) ==
    LET sp == safe_path_for_project(tree, directory)
        files == { f \in DOMAIN tree : IsPrefix(sp.p, f) /\ f # sp.p /\ IsFile(tree, f) }
    IN IF ~sp.ok THEN Raised("ValueError")
       ELSE IF ~IsDir(tree, sp.p) THEN Returned(<<"ERROR: not a directory", sp.p>>)
       ELSE IF \E f \in files : ~IsPrefix(PROJECT_ROOT, f) THEN Raised("ValueError")
       ELSE IF files = {} THEN Returned(<<"No files found.">>)
       ELSE Returned({ RelativeTo(f, PROJECT_ROOT) : f \in files })

\* `if cwd`: None (the default) and the empty string both select PROJECT_ROOT;
\* NoCwd stands for either
NoCwd == Rel(<<>>)
Truthy(path) == path.abs \/ path.segs # <<>>

\* What a command does once started: it runs for cmd.dur seconds, then creates
\* the file cmd.makes in its working directory and exits with cmd.rc.
CmdEffect(tree, dir, cmd) ==
    IF cmd.makes = NoStr \/ Exists(tree, Append(dir, cmd.makes)) THEN tree
    ELSE PutFile(tree, Append(dir, cmd.makes), <<>>)

\* run_cmd, lines 104-109.  subprocess.run raises when cwd is no directory
\* (nothing is started) and raises TimeoutExpired, after killing the child,
\* when the command outlives the timeout.
run_cmd(tree, cmd, cwd, timeout) ==
    LET sp == IF Truthy(cwd) THEN safe_path_for_project(tree, cwd)
              ELSE [ok |-> TRUE, p |-> PROJECT_ROOT]
    IN IF ~sp.ok
       THEN [tree |-> tree, started |-> FALSE, res |-> Raised("ValueError")]
       ELSE IF ~IsDir(tree, sp.p)
            THEN [tree |-> tree, started |-> FALSE, res |-> Raised("FileNotFoundError")]
       ELSE IF cmd.dur > timeout
            THEN [tree |-> tree, started |-> TRUE, res |-> Raised("TimeoutExpired")]
       ELSE [tree |-> CmdEffect(tree, sp.p, cmd), started |-> TRUE,
             res |-> Returned(<<cmd.rc, "stdout", "stderr">>)]

(***************************************************************************)
(* The file tree the session starts from.  init_project_root() has made    *)
(* the root; the tree holds a symlink out of the root (lnk -> /w/out), a    *)
(* symlink that stays inside it (in -> d) and a file outside the root.      *)
(***************************************************************************)

Outside == Cwd \o <<"out">>

InitTree ==
    LET nodes == { <<>>, Cwd, PROJECT_ROOT, Outside, Outside \o <<"s">>, <<"etc">>,
                   PROJECT_ROOT \o <<"lnk">>, PROJECT_ROOT \o <<"in">> }
    IN [q \in nodes |->
          CASE q = PROJECT_ROOT \o <<"lnk">> -> LinkTo(Outside)
            [] q = PROJECT_ROOT \o <<"in">>  -> LinkTo(PROJECT_ROOT \o <<"d">>)
            [] q = Outside \o <<"s">>        -> FileOf(<<"x">>)
            [] OTHER                         -> Dir]

\* path arguments the tools are called with
PathArgs ==
    { Rel(<<"a">>), Rel(<<"d", "a">>), Rel(<<"d">>), Rel(<<".">>), Rel(<<"in", "a">>),
      Rel(<<"..", "generated_project", "a">>), Abs(PROJECT_ROOT \o <<"a">>),
      Rel(<<"..", "x", "y">>), Rel(<<"lnk", "s">>), Abs(<<"etc">>) }

\* working directories run_cmd is called with
CwdArgs == { NoCwd, Rel(<<"d">>), Rel(<<"a">>), Rel(<<"..">>), Rel(<<"lnk">>) }

Contents ==
    { <<>>, <<"x", LF, "y", LF>>, <<"x", CR, LF, "y">> }

NoCmd == [dur |-> 0, rc |-> 0, makes |-> NoStr]
Cmds == { [dur |-> 0, rc |-> 1, makes |-> "out"],
          [dur |-> 5, rc |-> 0, makes |-> NoStr] }

\* the default of run_cmd's timeout parameter, and a shorter one
Timeouts == {1, 30}

StoreOps == {"write_file", "read_file", "list_files", "run_cmd"}

\* the record of a tool call: p is the resolved path, opened the paths the
\* call opened or scanned, started whether a child process was started
Call(op, path, content, cmd, timeout, p, opened, started, res) ==
    [op |-> op, path |-> path, content |-> content, cmd |-> cmd, timeout |-> timeout,
     p |-> p, opened |-> opened, started |-> started, res |-> res]

NoCall == Call("none", NoCwd, <<>>, NoCmd, 0, <<>>, {}, FALSE, Returned(<<>>))

SafePath(path) ==
    LET sp == safe_path_for_project(fs, path)
    IN /\ call' = Call("safe_path_for_project", path, <<>>, NoCmd, 0, sp.p, {}, FALSE,
                       IF sp.ok THEN Returned(sp.p) ELSE Raised("ValueError"))
       /\ UNCHANGED fs

WriteFile(path, content) ==
    LET sp == safe_path_for_project(fs, path)
        r == write_file(fs, path, content)
    IN /\ fs' = r.tree
       /\ call' = Call("write_file", path, content, NoCmd, 0, sp.p,
                       IF r.res.status = "ok" \/ r.res.exc = "IsADirectoryError"
                       THEN {sp.p} ELSE {},
                       FALSE, r.res)

ReadFile(path) ==
    LET sp == safe_path_for_project(fs, path)
        r == read_file(fs, path)
    IN /\ call' = Call("read_file", path, <<>>, NoCmd, 0, sp.p,
                       IF sp.ok /\ Exists(fs, sp.p) THEN {sp.p} ELSE {}, FALSE, r)
       /\ UNCHANGED fs

ListFiles(directory) ==
    LET sp == safe_path_for_project(fs, directory)
        r == list_files(fs, directory)
    IN /\ call' = Call("list_files", directory, <<>>, NoCmd, 0, sp.p,
                       IF sp.ok /\ IsDir(fs, sp.p) THEN {sp.p} ELSE {}, FALSE, r)
       /\ UNCHANGED fs

RunCmd(cmd, cwd, timeout) ==
    LET p == IF Truthy(cwd) THEN safe_path_for_project(fs, cwd).p ELSE PROJECT_ROOT
        r == run_cmd(fs, cmd, cwd, timeout)
    IN /\ fs' = r.tree
       /\ call' = Call("run_cmd", cwd, <<>>, cmd, timeout, p, {}, r.started, r.res)

(***************************************************************************)
(* The session: main() and the graph.                                      *)
(***************************************************************************)

\* a Python str held in the state: the sequence of its characters
Str(chars) == [kind |-> "str", chars |-> chars]

\* truthiness of an Optional[str]: None and "" are false
StrTruthy(x) == x # None /\ x.chars # <<>>

\* an exception: its type and the parts of its message
Exc(type, message) == [type |-> type, message |-> message]
NoExc == Exc(NoStr, <<>>)

NoAnswer == [node |-> NoStr, choice |-> NoStr, text |-> None]
NoRequest == [agent |-> NoStr, mode |-> NoStr, prompt |-> None, previous |-> None,
              edit |-> None, plan |-> None, visit |-> 0]

InitSession ==
    /\ pc = "input" /\ outcome = NoStr /\ exc = NoExc /\ supersteps = 0
    /\ user_prompt = None /\ plan = None /\ task_plan = None /\ coder_state = None
    /\ status = NoStr /\ edit_request = None
    /\ previous_plan = None /\ previous_task_plan = None
    /\ planner_approved = NoStr /\ architect_approved = NoStr
    /\ visit = 0 /\ shown = None /\ answer = NoAnswer /\ request = NoRequest
    /\ revisedAt = <<>> /\ invocations = 0 /\ processed = <<>> /\ elapsed = 0

\* the log of a run: the external inputs it consumed, the stages it entered
\* and the cursor it has reached
NoLog == [inputs |-> <<>>, stages |-> <<>>, cursor |-> 0, records |-> None]

\* the agent before main's first prompt
AgentInit ==
    /\ fs = InitTree
    /\ call = NoCall
    /\ InitSession
    /\ user_input = None /\ response = None /\ log = NoLog /\ prior = NoLog

\* constants.py
GRID_SIZE == 3
CELL_SIZE == 200
BOARD_PADDING == 50
STATE_MENU == "menu"
STATE_PLAYING == "playing"
STATE_GAME_OVER == "game_over"
PLAYER_X == "X"
PLAYER_O == "O"
PLAYER_HUMAN == 1
PLAYER_AI == 2

\* the cells of the board, (row, col)
Cells == (0..(GRID_SIZE - 1)) \X (0..(GRID_SIZE - 1))

\* Board.__init__ / Board.reset, lines 23, 145: every cell is None
EmptyGrid == [c \in Cells |-> NoStr]

\* no call into ai.py yet
NoAICall == [fn |-> "none", before |-> EmptyGrid, after |-> EmptyGrid, move |-> <<>>]

\* GameController.__init__, game.py lines 45-63, and main.py lines 32-38
ControllerInit ==
    /\ game_state = STATE_MENU
    /\ scores = [human |-> 0, ai |-> 0, draws |-> 0]
    /\ current_player = PLAYER_X
    /\ game_mode = "human_vs_ai"
    /\ player_types = [X |-> PLAYER_HUMAN, O |-> PLAYER_AI]
    /\ running = TRUE /\ frame = "events"
    /\ finished = 0 /\ ai_call = NoAICall

GameInit == grid = EmptyGrid /\ ControllerInit

Init == AgentInit /\ GameInit

\* the agent leaves the sample game alone
GameIdle == UNCHANGED gameVars

sessionVars == <<mainVars, graphVars, ioVars, histVars, gameVars>>

StoreSafePath == \E path \in PathArgs : SafePath(path) /\ UNCHANGED sessionVars
StoreWrite ==
    \E path \in PathArgs, content \in Contents :
        WriteFile(path, content) /\ UNCHANGED sessionVars
StoreRead == \E path \in PathArgs : ReadFile(path) /\ UNCHANGED sessionVars
StoreList == \E path \in PathArgs : ListFiles(path) /\ UNCHANGED sessionVars
StoreRun ==
    \E cmd \in Cmds, cwd \in CwdArgs, t \in Timeouts :
        RunCmd(cmd, cwd, t) /\ UNCHANGED sessionVars

NextStore == StoreSafePath \/ StoreWrite \/ StoreRead \/ StoreList \/ StoreRun

SpecStore == Init /\ [][NextStore]_vars

(***************************************************************************)
(* Bounds of the model and the inputs of a session.                        *)
(***************************************************************************)

\* the longest TaskPlan the backend returns
MaxSteps == 2
\* the most non-empty edits the human requests in one run
MaxEdits == 2

\* coder_agent, line 269
TIMEOUT_SECONDS == 120

\* elapsed times of an inference call: under, at and over the ceiling
Elapsed == {1, TIMEOUT_SECONDS, TIMEOUT_SECONDS + 1}

\* str.strip() and str.lower() on the characters the inputs use
RECURSIVE LStrip(_)
LStrip(cs) == IF cs # <<>> /\ Head(cs) = " " THEN LStrip(Tail(cs)) ELSE cs

RECURSIVE RStrip(_)
RStrip(cs) ==
    IF cs # <<>> /\ cs[Len(cs)] = " " THEN RStrip(SubSeq(cs, 1, Len(cs) - 1)) ELSE cs

Strip(cs) == RStrip(LStrip(cs))

LowerChar(c) ==
    CASE c = "E" -> "e" [] c = "D" -> "d" [] c = "I" -> "i" [] c = "T" -> "t"
      [] c = "Q" -> "q" [] c = "U" -> "u" [] c = "X" -> "x" [] OTHER -> c

Lower(cs) == [i \in 1..Len(cs) |-> LowerChar(cs[i])]

\* what the user types at main's prompt
MainInputs ==
    { <<"a", "p", "p">>, <<" ", "a", "p", "p", " ">>, <<"g", "r", "a", "p", "h">>,
      <<"e", "x", "i", "t">>, <<" ", "Q", "u", "i", "t">>, <<"e", "n", "d">> }

\* what the human types at "Approve this ...? (yes/edit)"
AnswerInputs ==
    { <<"y", "e", "s">>, <<"n", "o">>, <<>>,
      <<"e", "d", "i", "t">>, <<" ", "E", "d", "i", "T", " ">> }

\* what the human types at "What would you like to edit?"
EditInputs == { <<>>, <<" ">>, <<"a">>, <<" ", "b", " ">> }

\* the Plans the backend returns (llm.with_structured_output(Plan))
Plans == { [kind |-> "Plan", name |-> "P1"], [kind |-> "Plan", name |-> "P2"] }

\* the filepaths a step carries: a file in the root and a path that escapes it
StepPaths == { Rel(<<"a">>), Rel(<<"..", "x">>) }

ImplementationTask(path) == [filepath |-> path, task_description |-> "t"]

\* the TaskPlans the backend returns (llm.with_structured_output(TaskPlan))
TaskPlans ==
    { [kind |-> "TaskPlan", implementation_steps |-> steps, plan |-> None] :
        steps \in UNION { [1..n -> { ImplementationTask(q) : q \in StepPaths }] :
                          n \in 0..MaxSteps } }

\* what the backend does with the tools during one inference call: nothing,
\* or write_file(<the step's file>, ToolContent)
ToolUses == {"none", "write"}
ToolContent == <<"x", LF, "y", LF>>

(***************************************************************************)
(* The graph.  A node returns a partial update (a record over some keys of *)
(* GraphState) that the runtime merges into the state; the conditional     *)
(* edge of the node is then evaluated on the merged state.                 *)
(***************************************************************************)

Merged(upd, key, old) == IF key \in DOMAIN upd THEN upd[key] ELSE old

Apply(upd) ==
    /\ user_prompt' = Merged(upd, "user_prompt", user_prompt)
    /\ plan' = Merged(upd, "plan", plan)
    /\ task_plan' = Merged(upd, "task_plan", task_plan)
    /\ coder_state' = Merged(upd, "coder_state", coder_state)
    /\ status' = Merged(upd, "status", status)
    /\ edit_request' = Merged(upd, "edit_request", edit_request)
    /\ previous_plan' = Merged(upd, "previous_plan", previous_plan)
    /\ previous_task_plan' = Merged(upd, "previous_task_plan", previous_task_plan)
    /\ planner_approved' = Merged(upd, "planner_approved", planner_approved)
    /\ architect_approved' = Merged(upd, "architect_approved", architect_approved)

\* Faulty variant of FreshState: the state of the run before is kept (as a
\* checkpointer with a fixed thread would do) and only the intent is replaced
FreshStateKeepsRun(input) ==
    /\ user_prompt' = input
    /\ UNCHANGED <<plan, task_plan, coder_state, status, edit_request, previous_plan,
                   previous_task_plan, planner_approved, architect_approved>>

\* agent.invoke({"user_prompt": user_input}): the state a run starts from
FreshState(input) ==
    /\ user_prompt' = input
    /\ plan' = None /\ task_plan' = None /\ coder_state' = None
    /\ status' = NoStr /\ edit_request' = None
    /\ previous_plan' = None /\ previous_task_plan' = None
    /\ planner_approved' = NoStr /\ architect_approved' = NoStr

\* An exception leaves the node and agent.invoke: the run's state, which only
\* the runtime held, is gone, and main's except clause is next.
Raise(e) ==
    /\ pc' = "except"
    /\ exc' = e
    /\ user_prompt' = None
    /\ plan' = None /\ task_plan' = None /\ coder_state' = None
    /\ status' = NoStr /\ edit_request' = None
    /\ previous_plan' = None /\ previous_task_plan' = None
    /\ planner_approved' = NoStr /\ architect_approved' = NoStr

\* agent.invoke (line 454) passes no config, so the compiled graph runs under
\* LangGraph's default recursion_limit
RECURSION_LIMIT == 25

GraphRecursionError ==
    Exc("GraphRecursionError", <<"Recursion limit reached without hitting a stop condition">>)

\* The end of a superstep: the node has returned upd.  The runtime counts the
\* superstep; past the recursion limit it raises GraphRecursionError, otherwise
\* it merges upd into the state and follows the node's edge to target.
EndSuperstep(upd, target) ==
    /\ supersteps' = supersteps + 1
    /\ IF supersteps' > RECURSION_LIMIT
       THEN Raise(GraphRecursionError)
       ELSE /\ Apply(upd)
            /\ pc' = target
            /\ exc' = exc

\* the node raised e: the superstep does not end
NodeRaises(e) == Raise(e) /\ supersteps' = supersteps

\* Faulty variant of route_planner_approval: the edit branch is lost, every
\* answer leads on to the architect
route_planner_approval_always_forward(approved) == "architect"

\* route_planner_approval, lines 353-357
route_planner_approval(approved) == IF approved = "edit" THEN "planner" ELSE "architect"

\* Faulty variant of route_architect_approval: an edit of the TaskPlan leads
\* back to the planner
route_architect_approval_to_planner(approved) ==
    IF approved = "edit" THEN "planner" ELSE "coder"

\* route_architect_approval, lines 359-363
route_architect_approval(approved) == IF approved = "edit" THEN "architect" ELSE "coder"

\* route_coder, lines 365-369
route_coder(st) == IF st = "DONE" THEN "__end__" ELSE "coder"

EDIT == <<"e", "d", "i", "t">>

\* ---------------------------------------------------------------- planner

\* planner_agent, line 165: `if edit_request and previous_plan`
PlannerRevises(er, prev) == StrTruthy(er) /\ prev # None

\* Faulty variant of lines 188-193: previous_plan is not cleared
PlannerReturnKeepsPrevious(message, up) ==
    [plan |-> message, user_prompt |-> up, edit_request |-> None]

\* planner_agent, lines 188-193: the update it returns
PlannerReturn(message, up) ==
    [plan |-> message, user_prompt |-> up, edit_request |-> None, previous_plan |-> None]

\* Faulty variant of lines 165-179: the prior Plan is changed before it is
\* put in the request
PlannerRequestEditsPrevious(er, prev, up, v) ==
    IF PlannerRevises(er, prev)
    THEN [agent |-> "planner", mode |-> "revise", prompt |-> None,
          previous |-> [prev EXCEPT !.name = "edited"],
          edit |-> er, plan |-> None, visit |-> v]
    ELSE [agent |-> "planner", mode |-> "new", prompt |-> up, previous |-> None,
          edit |-> None, plan |-> None, visit |-> v]

\* the request planner_agent sends: lines 165-179
PlannerRequest(er, prev, up, v) ==
    IF PlannerRevises(er, prev)
    THEN [agent |-> "planner", mode |-> "revise", prompt |-> None, previous |-> prev,
          edit |-> er, plan |-> None, visit |-> v]
    ELSE [agent |-> "planner", mode |-> "new", prompt |-> up, previous |-> None,
          edit |-> None, plan |-> None, visit |-> v]

\* the text of a backend response that llm.with_structured_output(...) could
\* not turn into the schema (its invoke then returns None)
RawResponse == "not a record"

\* planner_agent, lines 183-184: the error raised for a response that could
\* not be turned into a Plan
PlannerError == Exc("ValueError", <<"Planner did not return a valid response.">>)

\* planner_agent, lines 156-193; message = None stands for a response that
\* could not be turned into a Plan (line 183 raises)
planner_agent(message) ==
    /\ pc = "planner"
    /\ request' = PlannerRequest(edit_request, previous_plan, user_prompt, visit)
    /\ revisedAt' = IF request'.mode = "revise" THEN Append(revisedAt, visit) ELSE revisedAt
    /\ IF message = None
       THEN NodeRaises(PlannerError)
       ELSE EndSuperstep(PlannerReturn(message, user_prompt), "approval_planner")
    /\ UNCHANGED <<storeVars, outcome, visit, shown, answer, invocations,
                   processed, elapsed>>

\* -------------------------------------------------------------- architect

\* architect_agent, line 204: `if edit_request and previous_task_plan`
ArchitectRevises(er, prev) == StrTruthy(er) /\ prev # None

\* architect_agent, lines 228-234: message.plan = plan, and the update
ArchitectReturn(message, pl) ==
    [task_plan |-> [message EXCEPT !.plan = pl], edit_request |-> None,
     previous_task_plan |-> None]

\* the request architect_agent sends: lines 204-220
ArchitectRequest(er, prev, pl, v) ==
    IF ArchitectRevises(er, prev)
    THEN [agent |-> "architect", mode |-> "revise", prompt |-> None, previous |-> prev,
          edit |-> er, plan |-> pl, visit |-> v]
    ELSE [agent |-> "architect", mode |-> "new", prompt |-> None, previous |-> None,
          edit |-> None, plan |-> pl, visit |-> v]

\* architect_agent, lines 224-225
ArchitectError == Exc("ValueError", <<"Architect did not return a valid response.">>)

\* architect_agent, lines 195-234
architect_agent(message) ==
    /\ pc = "architect"
    /\ request' = ArchitectRequest(edit_request, previous_task_plan, plan, visit)
    /\ revisedAt' = IF request'.mode = "revise" THEN Append(revisedAt, visit) ELSE revisedAt
    /\ IF message = None
       THEN NodeRaises(ArchitectError)
       ELSE EndSuperstep(ArchitectReturn(message, plan), "approval_architect")
    /\ UNCHANGED <<storeVars, outcome, visit, shown, answer, invocations,
                   processed, elapsed>>

\* --------------------------------------------------------------- approval

\* Faulty variant of lines 306-321: only "yes" approves, every other answer
\* is taken as a request for an edit
ApprovalPlannerReturnEditUnlessYes(approved, edit_instructions, pl) ==
    IF approved = <<"y", "e", "s">>
    THEN [planner_approved |-> "yes"]
    ELSE [planner_approved |-> "edit", edit_request |-> Str(edit_instructions),
          previous_plan |-> pl]

\* Faulty variant of lines 306-321: the prior Plan is not saved with the edit
ApprovalPlannerReturnNoPrevious(approved, edit_instructions, pl) ==
    IF approved = EDIT
    THEN IF edit_instructions = <<>>
         THEN [planner_approved |-> "yes"]
         ELSE [planner_approved |-> "edit", edit_request |-> Str(edit_instructions)]
    ELSE [planner_approved |-> "yes"]

\* approval_planner_node, lines 306-321: the update it returns
ApprovalPlannerReturn(approved, edit_instructions, pl) ==
    IF approved = EDIT
    THEN IF edit_instructions = <<>>
         THEN [planner_approved |-> "yes"]
         ELSE [planner_approved |-> "edit", edit_request |-> Str(edit_instructions),
               previous_plan |-> pl]
    ELSE [planner_approved |-> "yes"]

\* Faulty variant of lines 334-349: an edit of the TaskPlan also saves the
\* record as the prior Plan
ApprovalArchitectReturnSavesPlan(approved, edit_instructions, tp) ==
    IF approved = EDIT
    THEN IF edit_instructions = <<>>
         THEN [architect_approved |-> "yes"]
         ELSE [architect_approved |-> "edit", edit_request |-> Str(edit_instructions),
               previous_task_plan |-> tp, previous_plan |-> tp]
    ELSE [architect_approved |-> "yes"]

\* Faulty variant of lines 334-349: the test of line 338 for an empty edit
\* text is missing
ApprovalArchitectReturnNoEmptyTest(approved, edit_instructions, tp) ==
    IF approved = EDIT
    THEN [architect_approved |-> "edit", edit_request |-> Str(edit_instructions),
          previous_task_plan |-> tp]
    ELSE [architect_approved |-> "yes"]

\* approval_architect_node, lines 334-349: the update it returns
ApprovalArchitectReturn(approved, edit_instructions, tp) ==
    IF approved = EDIT
    THEN IF edit_instructions = <<>>
         THEN [architect_approved |-> "yes"]
         ELSE [architect_approved |-> "edit", edit_request |-> Str(edit_instructions),
               previous_task_plan |-> tp]
    ELSE [architect_approved |-> "yes"]

\* the human's decision as the checkpoint read it: the second prompt is only
\* shown after "edit"
Decision(node, approved, edit_instructions) ==
    IF approved = EDIT
    THEN [node |-> node, choice |-> "edit", text |-> Str(edit_instructions)]
    ELSE [node |-> node, choice |-> "other", text |-> None]

\* approval_planner_node (lines 294-321) followed by route_planner_approval
approval_planner_node(a, e) ==
    LET approved == Lower(Strip(a))
        edit_instructions == Strip(e)
        upd == ApprovalPlannerReturn(approved, edit_instructions, plan)
    IN /\ pc = "approval_planner"
       /\ visit' = visit + 1
       /\ shown' = plan
       /\ answer' = Decision("approval_planner", approved, edit_instructions)
       /\ EndSuperstep(upd, route_planner_approval(planner_approved'))
       /\ UNCHANGED <<storeVars, outcome, request, revisedAt, invocations,
                      processed, elapsed>>

\* approval_architect_node (lines 323-349) followed by route_architect_approval
approval_architect_node(a, e) ==
    LET approved == Lower(Strip(a))
        edit_instructions == Strip(e)
        upd == ApprovalArchitectReturn(approved, edit_instructions, task_plan)
    IN /\ pc = "approval_architect"
       /\ visit' = visit + 1
       /\ shown' = task_plan
       /\ answer' = Decision("approval_architect", approved, edit_instructions)
       /\ EndSuperstep(upd, route_architect_approval(architect_approved'))
       /\ UNCHANGED <<storeVars, outcome, request, revisedAt, invocations,
                      processed, elapsed>>

\* ------------------------------------------------------------------ coder

\* Faulty variant of lines 238-241: the cursor is made over a TaskPlan
\* without steps
CoderStateOfNoSteps(cs, tp) ==
    IF cs = None
    THEN [kind |-> "CoderState", task_plan |-> [tp EXCEPT !.implementation_steps = <<>>],
          current_step_idx |-> 0]
    ELSE cs

\* Faulty variant of lines 238-241: the cursor is made anew by every
\* invocation
CoderStateOfFresh(cs, tp) ==
    [kind |-> "CoderState", task_plan |-> tp, current_step_idx |-> 0]

\* coder_agent, lines 238-241: the cursor is made on the first invocation
CoderStateOf(cs, tp) ==
    IF cs = None
    THEN [kind |-> "CoderState", task_plan |-> tp, current_step_idx |-> 0]
    ELSE cs

\* coder_agent, line 246
AllStepsCompleted(idx, total) == idx >= total

\* Faulty variant of line 284: the cursor moves past two steps
AdvanceSkipping(idx) == idx + 2

\* coder_agent, line 284
Advance(idx) == idx + 1

\* Faulty variant of line 286: the comparison is not strict
OverranAtCeiling(el) == el >= TIMEOUT_SECONDS

\* Faulty variant of line 286: the elapsed seconds are compared with the
\* ceiling taken as milliseconds
OverranInMillis(el) == el > TIMEOUT_SECONDS * 1000

\* coder_agent, line 286
Overran(el) == el > TIMEOUT_SECONDS

\* Faulty variant of lines 286-290: the run is also marked DONE by the
\* invocation that processes the last step
CoderReturnDoneAtLastStep(cs, el) ==
    IF Overran(el) \/ cs.current_step_idx >= Len(cs.task_plan.implementation_steps)
    THEN [coder_state |-> cs, status |-> "DONE"]
    ELSE [coder_state |-> cs]

\* coder_agent, lines 286-290: the update it returns after a step
CoderReturn(cs, el) ==
    IF Overran(el)
    THEN [coder_state |-> cs, status |-> "DONE"]
    ELSE [coder_state |-> cs]

\* coder_agent, lines 246-248: no step is left
CoderAllDone ==
    LET cs == CoderStateOf(coder_state, task_plan)
    IN /\ pc = "coder"
       /\ AllStepsCompleted(cs.current_step_idx, Len(cs.task_plan.implementation_steps))
       /\ EndSuperstep([coder_state |-> cs, status |-> "DONE"], route_coder(status'))
       /\ invocations' = invocations + 1
       /\ UNCHANGED <<storeVars, outcome, visit, shown, answer, request,
                      revisedAt, processed, elapsed>>

\* the executor's own read, line 255, as a tool call
ExecutorRead(path) ==
    LET sp == safe_path_for_project(fs, path)
    IN Call("read_file", path, <<>>, NoCmd, 0, sp.p,
            IF sp.ok /\ Exists(fs, sp.p) THEN {sp.p} ELSE {}, FALSE, read_file(fs, path))

\* the exception a file tool raised, as the caller of tool.run receives it
StoreError(e) ==
    IF e = "ValueError" THEN Exc(e, <<"Attempt to write outside project root">>)
    ELSE Exc(e, <<>>)

\* coder_agent, line 255, when read_file raises: the call is outside the try
\* of lines 271-279, so the exception leaves coder_agent
CoderReadRaises ==
    LET cs == CoderStateOf(coder_state, task_plan)
        steps == cs.task_plan.implementation_steps
    IN /\ pc = "coder"
       /\ ~AllStepsCompleted(cs.current_step_idx, Len(steps))
       /\ call' = ExecutorRead(steps[cs.current_step_idx + 1].filepath)
       /\ call'.res.status = "raise"
       /\ NodeRaises(StoreError(call'.res.exc))
       /\ UNCHANGED <<fs, outcome, ioVars>>

\* coder_agent, line 265: the tools create_agent is given
coder_tools == {"read_file", "write_file", "list_files", "get_current_directory"}

\* the inference call of coder_agent, lines 257-277: the fixed system prompt,
\* a user prompt made of the task, its file and the content just read, and
\* the tools
CoderRequest(current_task, existing_content, v) ==
    [agent |-> "coder", mode |-> "tools", tools |-> coder_tools,
     prompt |-> [task |-> current_task, existing_content |-> existing_content],
     previous |-> None, edit |-> None, plan |-> None, visit |-> v]

\* Faulty variant of lines 271-279: no handler around the inference call
AfterInferenceNoHandler(result) == IF result = "error" THEN "propagates" ELSE "returned"

\* coder_agent, lines 271-279: `except Exception` catches a failed inference
\* call and prints it
AfterInference(result) == IF result = "error" THEN "caught" ELSE "returned"

\* coder_agent, lines 250-290, one step: the read, the inference call (which
\* returns or raises, after el seconds, having used the tools), the advance
\* of the cursor and the test of the ceiling; then route_coder
CoderStep(result, el, use) ==
    LET cs == CoderStateOf(coder_state, task_plan)
        steps == cs.task_plan.implementation_steps
        idx == cs.current_step_idx
    IN /\ pc = "coder"
       /\ ~AllStepsCompleted(idx, Len(steps))
       /\ call' = ExecutorRead(steps[idx + 1].filepath)
       /\ call'.res.status = "ok"
       /\ fs' = IF use = "write"
                THEN write_file(fs, steps[idx + 1].filepath, ToolContent).tree
                ELSE fs
       /\ request' = CoderRequest(steps[idx + 1], call'.res.value, visit)
       /\ processed' = Append(processed,
                              [idx |-> idx, filepath |-> steps[idx + 1].filepath,
                               existing_content |-> call'.res.value, result |-> result,
                               over |-> el > TIMEOUT_SECONDS])
       /\ IF AfterInference(result) = "propagates"
          THEN /\ NodeRaises(Exc("Exception", <<"inference">>))
               /\ UNCHANGED <<elapsed, invocations>>
          ELSE /\ elapsed' = el
               /\ invocations' = invocations + 1
               /\ EndSuperstep(CoderReturn([cs EXCEPT !.current_step_idx = Advance(idx)], el),
                               route_coder(status'))
       /\ UNCHANGED <<outcome, visit, shown, answer, revisedAt>>

\* ------------------------------------------------------------------- main

Sentinels == { <<"e", "x", "i", "t">>, <<"e", "n", "d">>, <<"q", "u", "i", "t">> }
GRAPH == <<"g", "r", "a", "p", "h">>

\* main, lines 445-447
MainExit ==
    /\ pc = "input"
    /\ \E raw \in MainInputs :
          /\ Lower(Strip(raw)) \in Sentinels
          /\ user_input' = Str(Strip(raw))
    /\ pc' = "exit"
    /\ UNCHANGED <<storeVars, outcome, exc, supersteps, graphVars, ioVars>>

\* main, lines 449-451; display_graph() writes graph_visualization.png into
\* the current directory, which is no part of the tree the tools see
MainGraph ==
    /\ pc = "input"
    /\ \E raw \in MainInputs :
          /\ Lower(Strip(raw)) = GRAPH
          /\ user_input' = Str(Strip(raw))
    /\ UNCHANGED <<storeVars, mainVars, graphVars, ioVars>>

\* main, line 454: agent.invoke({"user_prompt": user_input}) enters the graph
\* at its entry point, the planner
MainInvoke ==
    /\ pc = "input"
    /\ \E raw \in MainInputs :
          /\ Lower(Strip(raw)) \notin Sentinels \cup {GRAPH}
          /\ user_input' = Str(Strip(raw))
          /\ FreshState(user_input')
    /\ pc' = "planner"
    /\ outcome' = NoStr
    /\ exc' = NoExc
    /\ supersteps' = 0
    /\ call' = NoCall
    /\ visit' = 0 /\ shown' = None /\ answer' = NoAnswer /\ request' = NoRequest
    /\ revisedAt' = <<>> /\ invocations' = 0 /\ processed' = <<>> /\ elapsed' = 0
    /\ UNCHANGED fs

\* main, line 455: agent.invoke returned; result holds the final state
MainComplete ==
    /\ pc = "__end__"
    /\ pc' = "input"
    /\ outcome' = "complete"
    /\ UNCHANGED <<storeVars, exc, supersteps, graphVars, ioVars>>

\* Faulty variant of lines 456-457: the exception leaves main
MainExceptEndsSession ==
    /\ pc = "except"
    /\ pc' = "exit"
    /\ outcome' = "error"
    /\ UNCHANGED <<storeVars, exc, supersteps, graphVars, ioVars>>

\* main, lines 456-457: the exception of a node is caught and reported
MainExcept ==
    /\ pc = "except"
    /\ pc' = "input"
    /\ outcome' = "error"
    /\ UNCHANGED <<storeVars, exc, supersteps, graphVars, ioVars>>

\* the specification Spec keeps the backend's last answer and no log
NoLogKept == UNCHANGED <<user_input, log, prior>>

Planner ==
    \E message \in Plans \cup {None} :
        planner_agent(message) /\ response' = message /\ NoLogKept
\* the second prompt is answered only when the first answer was "edit"
EditInputsAfter(a) == IF Lower(Strip(a)) = EDIT THEN EditInputs ELSE {<<>>}

\* the human asks for at most MaxEdits revisions in a run
MayEdit(e) == Strip(e) # <<>> => Len(revisedAt) < MaxEdits

ApprovalPlanner ==
    \E a \in AnswerInputs : \E e \in EditInputsAfter(a) :
        MayEdit(e) /\ approval_planner_node(a, e) /\ UNCHANGED histVars
Architect ==
    \E message \in TaskPlans \cup {None} :
        architect_agent(message) /\ response' = message /\ NoLogKept
ApprovalArchitect ==
    \E a \in AnswerInputs : \E e \in EditInputsAfter(a) :
        MayEdit(e) /\ approval_architect_node(a, e) /\ UNCHANGED histVars
Coder ==
    \E result \in {"ok", "error"}, el \in Elapsed, use \in ToolUses :
        CoderStep(result, el, use) /\ UNCHANGED histVars

Next ==
    \/ MainInvoke /\ response' = None /\ UNCHANGED <<log, prior>> /\ GameIdle
    \/ MainExit /\ UNCHANGED <<response, log, prior>> /\ GameIdle
    \/ MainGraph /\ UNCHANGED <<response, log, prior>> /\ GameIdle
    \/ MainComplete /\ UNCHANGED histVars /\ GameIdle
    \/ MainExcept /\ UNCHANGED histVars /\ GameIdle
    \/ Planner /\ GameIdle
    \/ ApprovalPlanner /\ GameIdle
    \/ Architect /\ GameIdle
    \/ ApprovalArchitect /\ GameIdle
    \/ Coder /\ GameIdle
    \/ CoderAllDone /\ UNCHANGED histVars /\ GameIdle
    \/ CoderReadRaises /\ UNCHANGED histVars /\ GameIdle

Spec == Init /\ [][Next]_vars

(***************************************************************************)
(* Runs of any length at the checkpoints: the backend answers every        *)
(* request with a record, every step names a file in the root and stays    *)
(* under the ceiling, and the human asks for any number of revisions.      *)
(***************************************************************************)

\* the TaskPlans whose steps all name the file "a" of the root
LoopTaskPlans ==
    { tp \in TaskPlans :
        \A i \in DOMAIN tp.implementation_steps :
            tp.implementation_steps[i].filepath = Rel(<<"a">>) }

\* the human answers "yes", or "edit" and then the edit text "a"
LoopAnswers == { <<"y", "e", "s">>, EDIT }

LoopPlanner ==
    \E message \in Plans : planner_agent(message) /\ response' = message /\ NoLogKept
LoopApprovalPlanner ==
    \E a \in LoopAnswers : approval_planner_node(a, <<"a">>) /\ UNCHANGED histVars
LoopArchitect ==
    \E message \in LoopTaskPlans :
        architect_agent(message) /\ response' = message /\ NoLogKept
LoopApprovalArchitect ==
    \E a \in LoopAnswers : approval_architect_node(a, <<"a">>) /\ UNCHANGED histVars
LoopCoder == CoderStep("ok", 1, "write") /\ UNCHANGED histVars

NextLoop ==
    \/ MainInvoke /\ response' = None /\ UNCHANGED <<log, prior>> /\ GameIdle
    \/ MainComplete /\ UNCHANGED histVars /\ GameIdle
    \/ MainExcept /\ UNCHANGED histVars /\ GameIdle
    \/ LoopPlanner /\ GameIdle
    \/ LoopApprovalPlanner /\ GameIdle
    \/ LoopArchitect /\ GameIdle
    \/ LoopApprovalArchitect /\ GameIdle
    \/ LoopCoder /\ GameIdle
    \/ CoderAllDone /\ UNCHANGED histVars /\ GameIdle

SpecLoop == Init /\ [][NextLoop]_vars

(***************************************************************************)
(* One run after another in a session, with a log of what each run was     *)
(* fed and of the stages it went through: the intent is "app", the backend *)
(* returns the Plan P1 and a TaskPlan over the paths d and d/a, the human   *)
(* answers "yes", every inference call returns under the ceiling and may   *)
(* write the step's file.  The tree is what the runs before left.          *)
(***************************************************************************)

RerunIntent == <<"a", "p", "p">>
RerunPlan == [kind |-> "Plan", name |-> "P1"]
RerunPaths == { Rel(<<"d">>), Rel(<<"d", "a">>) }

RerunTaskPlans ==
    { [kind |-> "TaskPlan", implementation_steps |-> steps, plan |-> None] :
        steps \in UNION { [1..n -> { ImplementationTask(q) : q \in RerunPaths }] :
                          n \in 0..MaxSteps } }

\* something the run was fed: the intent, a result of the backend or a choice
\* of the human
Fed(src, val) == [src |-> src, val |-> val]

\* the log after a step of the run that consumed the inputs `fed`
LogAfter(fed) ==
    [inputs |-> log.inputs \o fed,
     stages |-> Append(log.stages, pc'),
     cursor |-> IF coder_state' = None THEN 0 ELSE coder_state'.current_step_idx,
     records |-> [plan |-> plan', task_plan |-> task_plan']]

Logged(fed) == log' = LogAfter(fed) /\ UNCHANGED <<user_input, prior>>

\* main, line 454: a run starts; the log of the run before is kept
RerunInvoke ==
    /\ MainInvoke
    /\ user_prompt' = Str(RerunIntent)
    /\ response' = None
    /\ prior' = IF log = NoLog THEN prior ELSE log
    /\ log' = [NoLog EXCEPT !.inputs = <<Fed("intent", user_prompt')>>,
                            !.stages = <<pc'>>]

RerunPlanner ==
    /\ planner_agent(RerunPlan)
    /\ response' = RerunPlan
    /\ Logged(<<Fed("backend", RerunPlan)>>)
RerunApprovalPlanner ==
    /\ approval_planner_node(<<"y", "e", "s">>, <<>>)
    /\ response' = response
    /\ Logged(<<Fed("human", [answer |-> <<"y", "e", "s">>])>>)
RerunArchitect ==
    \E message \in RerunTaskPlans :
        /\ architect_agent(message)
        /\ response' = message
        /\ Logged(<<Fed("backend", message)>>)
RerunApprovalArchitect ==
    /\ approval_architect_node(<<"y", "e", "s">>, <<>>)
    /\ response' = response
    /\ Logged(<<Fed("human", [answer |-> <<"y", "e", "s">>])>>)
RerunCoder ==
    \E use \in ToolUses :
        /\ CoderStep("ok", 1, use)
        /\ response' = response
        /\ Logged(<<Fed("backend", [result |-> "ok", elapsed |-> 1, use |-> use])>>)
RerunCoderAllDone == CoderAllDone /\ response' = response /\ Logged(<<>>)
RerunCoderReadRaises == CoderReadRaises /\ response' = response /\ Logged(<<>>)

NextRerun ==
    \/ RerunInvoke /\ GameIdle
    \/ MainComplete /\ UNCHANGED histVars /\ GameIdle
    \/ MainExcept /\ UNCHANGED histVars /\ GameIdle
    \/ RerunPlanner /\ GameIdle
    \/ RerunApprovalPlanner /\ GameIdle
    \/ RerunArchitect /\ GameIdle
    \/ RerunApprovalArchitect /\ GameIdle
    \/ RerunCoder /\ GameIdle
    \/ RerunCoderAllDone /\ GameIdle
    \/ RerunCoderReadRaises /\ GameIdle

SpecRerun == Init /\ [][NextRerun]_vars

(***************************************************************************)
(* The sample game of src/agent/generated_project: board.py, ai.py,        *)
(* renderer.py (the click mapping), game.py and the loop of main.py.       *)
(***************************************************************************)

\* the number of games a session of the model plays
MaxGames == 2

agentVars == <<storeVars, mainVars, graphVars, ioVars, histVars>>

\* ---------------------------------------------------------------- board.py

\* Board.is_valid_move, lines 43-62
is_valid_move(g, row, col) ==
    IF row < 0 \/ row >= GRID_SIZE \/ col < 0 \/ col >= GRID_SIZE
    THEN FALSE
    ELSE g[<<row, col>>] = NoStr

\* Board.make_move, lines 25-41: the board after the call and what it returns
make_move(g, row, col, player) ==
    IF ~is_valid_move(g, row, col)
    THEN [grid |-> g, ok |-> FALSE]
    ELSE [grid |-> [g EXCEPT ![<<row, col>>] = player], ok |-> TRUE]

\* the cells in the order of the loops of lines 81-82
RowMajor ==
    [i \in 1..(GRID_SIZE * GRID_SIZE) |-> <<(i - 1) \div GRID_SIZE, (i - 1) % GRID_SIZE>>]

\* Board.get_available_moves, lines 73-86
get_available_moves(g) == SelectSeq(RowMajor, LAMBDA c : g[c] = NoStr)

\* the lines Board.check_winner tests, in its order: rows, columns, diagonals
WinLines ==
    << <<<<0, 0>>, <<0, 1>>, <<0, 2>>>>, <<<<1, 0>>, <<1, 1>>, <<1, 2>>>>,
       <<<<2, 0>>, <<2, 1>>, <<2, 2>>>>,
       <<<<0, 0>>, <<1, 0>>, <<2, 0>>>>, <<<<0, 1>>, <<1, 1>>, <<2, 1>>>>,
       <<<<0, 2>>, <<1, 2>>, <<2, 2>>>>,
       <<<<0, 0>>, <<1, 1>>, <<2, 2>>>>, <<<<0, 2>>, <<1, 1>>, <<2, 0>>>> >>

\* Board.check_winner, lines 88-120: the mark of the first line that is full
\* of one mark, or None
check_winner(g) ==
    LET hits == { i \in DOMAIN WinLines :
                    /\ g[WinLines[i][1]] # NoStr
                    /\ g[WinLines[i][1]] = g[WinLines[i][2]]
                    /\ g[WinLines[i][2]] = g[WinLines[i][3]] }
    IN IF hits = {} THEN NoStr
       ELSE g[WinLines[CHOOSE i \in hits : \A j \in hits : i <= j][1]]

\* Board.check_draw, lines 122-138
check_draw(g) ==
    IF Len(get_available_moves(g)) > 0 THEN FALSE
    ELSE check_winner(g) = NoStr

\* ------------------------------------------------------------------- ai.py

\* AIPlayer(player_symbol=PLAYER_O), game.py line 47; ai.py lines 26-28
player_symbol == PLAYER_O
opponent_symbol == IF player_symbol = "O" THEN "X" ELSE "O"

\* float('-inf') and float('inf'): beyond every score, which lie in -10..10
NegInf == -1000
PosInf == 1000

Max2(a, b) == IF a >= b THEN a ELSE b
Min2(a, b) == IF a <= b THEN a ELSE b

\* minimax, line 60: the score of a board the AI has won
WinScore(depth) == 10 - depth

\* Faulty variant of line 64: a board the human has won scores as a win
LossScoreAsWin(depth) == 10 - depth

\* minimax, line 64: the score of a board the human has won
LossScore(depth) == depth - 10

\* Faulty variant of lines 85, 108, 154: the trial mark is left on the board
UndoKeepsMark(g, cell) == g

\* lines 85, 108, 154: board.grid[row][col] = None
Undo(g, cell) == [g EXCEPT ![cell] = NoStr]

RECURSIVE minimax(_, _, _, _, _)
RECURSIVE MinimaxLoop(_, _, _, _, _, _, _, _)

\* minimax, lines 73-118: the loop over available_moves from its i-th move,
\* with the best evaluation so far; the board is marked, evaluated and
\* unmarked in place, and the loop breaks when beta <= alpha
MinimaxLoop(g, moves, i, depth, is_maximizing, alpha, beta, best) ==
    IF i > Len(moves) THEN [eval |-> best, grid |-> g]
    ELSE LET cell == moves[i]
             marked == make_move(g, cell[1], cell[2],
                                 IF is_maximizing THEN player_symbol
                                 ELSE opponent_symbol).grid
             sub == minimax(marked, depth + 1, ~is_maximizing, alpha, beta)
             undone == Undo(sub.grid, cell)
             best2 == IF is_maximizing THEN Max2(best, sub.eval) ELSE Min2(best, sub.eval)
             alpha2 == IF is_maximizing THEN Max2(alpha, sub.eval) ELSE alpha
             beta2 == IF is_maximizing THEN beta ELSE Min2(beta, sub.eval)
         IN IF beta2 <= alpha2
            THEN [eval |-> best2, grid |-> undone]
            ELSE MinimaxLoop(undone, moves, i + 1, depth, is_maximizing,
                             alpha2, beta2, best2)

\* minimax, lines 30-118: the evaluation, and the board as the call leaves it
minimax(g, depth, is_maximizing, alpha, beta) ==
    LET winner == check_winner(g)
    IN IF winner = player_symbol THEN [eval |-> WinScore(depth), grid |-> g]
       ELSE IF winner = opponent_symbol THEN [eval |-> LossScore(depth), grid |-> g]
       ELSE IF check_draw(g) THEN [eval |-> 0, grid |-> g]
       ELSE MinimaxLoop(g, get_available_moves(g), 1, depth, is_maximizing, alpha, beta,
                        IF is_maximizing THEN NegInf ELSE PosInf)

\* get_best_move returns None
NoMove == <<>>

RECURSIVE BestMoveLoop(_, _, _, _, _)

\* get_best_move, lines 146-161: the loop over available_moves
BestMoveLoop(g, moves, i, best_score, best_move) ==
    IF i > Len(moves) THEN [move |-> best_move, grid |-> g]
    ELSE LET cell == moves[i]
             marked == make_move(g, cell[1], cell[2], player_symbol).grid
             sub == minimax(marked, 0, FALSE, NegInf, PosInf)
             undone == Undo(sub.grid, cell)
         IN IF sub.eval > best_score
            THEN BestMoveLoop(undone, moves, i + 1, sub.eval, cell)
            ELSE BestMoveLoop(undone, moves, i + 1, best_score, best_move)

\* get_best_move, lines 120-161: the move, and the board as the call leaves it
get_best_move(g) ==
    LET available_moves == get_available_moves(g)
    IN IF Len(available_moves) = 0 THEN [move |-> NoMove, grid |-> g]
       ELSE BestMoveLoop(g, available_moves, 1, NegInf, NoMove)

\* ------------------------------------------------------------- renderer.py

\* GameRenderer.__init__, lines 60-63
board_start == BOARD_PADDING
board_end == board_start + GRID_SIZE * CELL_SIZE

\* GameRenderer.handle_mouse_click, lines 323-352: (row, col), or None
handle_mouse_click(pos) ==
    LET x == pos[1]
        y == pos[2]
        col == (x - board_start) \div CELL_SIZE
        row == (y - board_start) \div CELL_SIZE
    IN IF x < board_start \/ x > board_end \/ y < board_start \/ y > board_end
       THEN NoMove
       ELSE IF row >= GRID_SIZE \/ col >= GRID_SIZE THEN NoMove
       ELSE <<row, col>>

\* ----------------------------------------------------------------- game.py

\* the GameController and its Board
Controller ==
    [grid |-> grid, game_state |-> game_state, scores |-> scores,
     current_player |-> current_player, game_mode |-> game_mode,
     player_types |-> player_types, finished |-> finished, ai_call |-> ai_call]

SetController(c) ==
    /\ grid' = c.grid
    /\ game_state' = c.game_state
    /\ scores' = c.scores
    /\ current_player' = c.current_player
    /\ game_mode' = c.game_mode
    /\ player_types' = c.player_types
    /\ finished' = c.finished
    /\ ai_call' = c.ai_call

\* the other mark: PLAYER_O if current_player == PLAYER_X else PLAYER_X
Other(player) == IF player = PLAYER_X THEN PLAYER_O ELSE PLAYER_X

\* GameController.handle_click, lines 65-94
handle_click(c, pos) ==
    LET board_pos == handle_mouse_click(pos)
    IN IF board_pos = NoMove THEN [c |-> c, ok |-> FALSE]
       ELSE IF ~is_valid_move(c.grid, board_pos[1], board_pos[2])
            THEN [c |-> c, ok |-> FALSE]
       ELSE LET made == make_move(c.grid, board_pos[1], board_pos[2], c.current_player)
            IN [c |-> [c EXCEPT !.grid = made.grid], ok |-> made.ok]

\* GameController.process_turn, lines 96-118
process_turn(c) ==
    LET ai_move(best) ==
            LET called == [c EXCEPT !.grid = best.grid,
                                    !.ai_call = [fn |-> "get_best_move",
                                                 before |-> c.grid,
                                                 after |-> best.grid,
                                                 move |-> best.move]]
            IN IF best.move # NoMove
               THEN [c |-> [called EXCEPT
                               !.grid = make_move(best.grid, best.move[1], best.move[2],
                                                  c.current_player).grid],
                     moved |-> TRUE]
               ELSE [c |-> called, moved |-> FALSE]
    IN IF c.current_player = PLAYER_O /\ c.player_types[PLAYER_O] = PLAYER_AI
       THEN ai_move(get_best_move(c.grid))
       ELSE [c |-> c, moved |-> FALSE]

\* Faulty variant of lines 120-155: a game won by O is not scored
check_game_end_o_unscored(c) ==
    LET winner == check_winner(c.grid)
    IN IF winner # NoStr
       THEN [c |-> [c EXCEPT !.scores.human = IF winner = PLAYER_X THEN @ + 1 ELSE @,
                             !.game_state = STATE_GAME_OVER,
                             !.finished = @ + 1],
             ended |-> TRUE]
       ELSE IF check_draw(c.grid)
       THEN [c |-> [c EXCEPT !.scores.draws = @ + 1,
                             !.game_state = STATE_GAME_OVER,
                             !.finished = @ + 1],
             ended |-> TRUE]
       ELSE [c |-> c, ended |-> FALSE]

\* GameController.check_game_end, lines 120-155
check_game_end(c) ==
    LET winner == check_winner(c.grid)
        is_draw == check_draw(c.grid)
    IN IF winner # NoStr
       THEN [c |-> [c EXCEPT !.scores.human = IF winner = PLAYER_X THEN @ + 1 ELSE @,
                             !.scores.ai = IF winner = PLAYER_X THEN @ ELSE @ + 1,
                             !.game_state = STATE_GAME_OVER,
                             !.finished = @ + 1],
             ended |-> TRUE]
       ELSE IF is_draw
       THEN [c |-> [c EXCEPT !.scores.draws = @ + 1,
                             !.game_state = STATE_GAME_OVER,
                             !.finished = @ + 1],
             ended |-> TRUE]
       ELSE [c |-> c, ended |-> FALSE]

\* GameController.update_game_state, lines 174-204
update_game_state(c) ==
    LET after_turn(turn) ==
            IF turn.moved
            THEN LET over == check_game_end(turn.c)
                 IN IF over.ended THEN over.c
                    ELSE [turn.c EXCEPT !.current_player = Other(turn.c.current_player)]
            ELSE turn.c
    IN IF c.game_state # STATE_PLAYING THEN c
       ELSE after_turn(process_turn(c))

\* GameController.handle_human_move, lines 206-246
handle_human_move(c, pos) ==
    LET after_turn(turn) ==
            IF turn.moved
            THEN LET over == check_game_end(turn.c)
                 IN IF over.ended THEN over.c
                    ELSE [turn.c EXCEPT !.current_player = PLAYER_X]
            ELSE turn.c
        after_switch(switched) ==
            IF switched.game_mode = "human_vs_ai" /\ switched.current_player = PLAYER_O
            THEN after_turn(process_turn(switched))
            ELSE switched
        after_click(click) ==
            IF ~click.ok THEN click.c
            ELSE LET over == check_game_end(click.c)
                 IN IF over.ended THEN over.c
                    ELSE after_switch([click.c EXCEPT
                                          !.current_player = Other(click.c.current_player)])
    IN IF c.game_state # STATE_PLAYING THEN c
       ELSE IF c.player_types[c.current_player] # PLAYER_HUMAN THEN c
       ELSE after_click(handle_click(c, pos))

GameModes == {"human_vs_ai", "human_vs_human"}

\* GameController.toggle_game_mode, lines 248-274
toggle_game_mode(c, mode) ==
    IF mode \notin GameModes THEN c
    ELSE [c EXCEPT !.game_mode = mode,
                   !.player_types =
                       IF mode = "human_vs_ai"
                       THEN [X |-> PLAYER_HUMAN, O |-> PLAYER_AI]
                       ELSE [X |-> PLAYER_HUMAN, O |-> PLAYER_HUMAN]]

\* GameController.start_game, lines 276-292; the record of the last call of
\* get_best_move is of the game before
start_game(c, mode) ==
    [toggle_game_mode(c, mode) EXCEPT !.grid = EmptyGrid,
                                      !.current_player = PLAYER_X,
                                      !.game_state = STATE_PLAYING,
                                      !.ai_call = NoAICall]

\* GameController.return_to_menu, lines 294-304
return_to_menu(c) == [c EXCEPT !.game_state = STATE_MENU]

\* ----------------------------------------------------------------- main.py

\* the keys of the KEYDOWN events
Keys == {"K_ESCAPE", "K_1", "K_2", "K_SPACE", "K_a"}

\* the first pixel of each cell along one axis
CellPixels == { board_start + i * CELL_SIZE : i \in 0..(GRID_SIZE - 1) }

\* the clicks: the first pixel of every cell, a pixel left of the board, the
\* last pixel of the board (which line 340 lets through) and one below it
Clicks ==
    (CellPixels \X CellPixels)
        \cup { <<board_start - 1, board_start>>, <<board_end, board_end>>,
               <<board_start, board_end + 1>> }

\* main.py, lines 49-68: what a key does to the controller
OnKey(c, key) ==
    IF c.game_state = STATE_MENU
    THEN IF key = "K_1" THEN start_game(c, "human_vs_ai")
         ELSE IF key = "K_2" THEN start_game(c, "human_vs_human")
         ELSE c
    ELSE IF c.game_state = STATE_GAME_OVER
    THEN IF key = "K_SPACE" THEN return_to_menu(c) ELSE c
    ELSE c

\* main.py, lines 45-46: the window is closed
QuitEvent ==
    /\ frame = "events" /\ running
    /\ running' = FALSE
    /\ UNCHANGED <<agentVars, grid, game_state, scores, current_player, game_mode,
                   player_types, frame, finished, ai_call>>

\* main.py, lines 49-68: a KEYDOWN event; a session of the model starts at
\* most MaxGames games, and the event that clears the flag is the last of
\* its frame
KeyDown ==
    \E key \in Keys :
        /\ frame = "events" /\ running
        /\ (game_state = STATE_MENU /\ key \in {"K_1", "K_2"}) => finished < MaxGames
        /\ running' = IF key = "K_ESCAPE" THEN FALSE ELSE running
        /\ SetController(OnKey(Controller, key))
        /\ UNCHANGED <<agentVars, frame>>

\* main.py, lines 71-75: a MOUSEBUTTONDOWN event
MouseButtonDown ==
    \E pos \in Clicks :
        /\ frame = "events" /\ running
        /\ SetController(IF game_state = STATE_PLAYING
                         THEN handle_human_move(Controller, pos)
                         ELSE Controller)
        /\ UNCHANGED <<agentVars, running, frame>>

\* main.py, lines 77-84 and 41: the end of a frame, after its events
FrameUpdate ==
    /\ frame = "events"
    /\ SetController(update_game_state(Controller))
    /\ frame' = IF running THEN "events" ELSE "quit"
    /\ UNCHANGED <<agentVars, running>>

NextGame == QuitEvent \/ KeyDown \/ MouseButtonDown \/ FrameUpdate

SpecGame == Init /\ [][NextGame]_vars

(***************************************************************************)
(* ai.py alone: get_best_move and minimax applied to a board.              *)
(***************************************************************************)

\* the most empty cells of a board the two functions are applied to
MaxEmpty == 3

Marks(g, player) == Cardinality({ c \in Cells : g[c] = player })

\* the boards of a game in which X began: as many X as O, or one more
AIBoards ==
    { g \in [Cells -> {PLAYER_X, PLAYER_O, NoStr}] :
        /\ Marks(g, NoStr) <= MaxEmpty
        /\ Marks(g, PLAYER_X) - Marks(g, PLAYER_O) \in {0, 1} }

InitAI == AgentInit /\ ControllerInit /\ grid \in AIBoards

\* ai.get_best_move(board), as process_turn calls it (game.py line 110)
AIGetBestMove ==
    LET best == get_best_move(grid)
    IN /\ ai_call.fn = "none"
       /\ ai_call' = [fn |-> "get_best_move", before |-> grid, after |-> best.grid,
                      move |-> best.move]
       /\ grid' = best.grid
       /\ UNCHANGED <<agentVars, game_state, scores, current_player, game_mode,
                      player_types, running, frame, finished>>

\* ai.minimax(board, 0, is_maximizing), as get_best_move calls it (line 151)
AIMinimax ==
    \E is_maximizing \in BOOLEAN :
        LET res == minimax(grid, 0, is_maximizing, NegInf, PosInf)
        IN /\ ai_call.fn = "none"
           /\ ai_call' = [fn |-> "minimax", before |-> grid, after |-> res.grid,
                          move |-> NoMove]
           /\ grid' = res.grid
           /\ UNCHANGED <<agentVars, game_state, scores, current_player, game_mode,
                          player_types, running, frame, finished>>

NextAI == AIGetBestMove \/ AIMinimax

SpecAI == InitAI /\ [][NextAI]_vars

(***************************************************************************)
(* Claims about the file tools (checked under SpecStore).                  *)
(***************************************************************************)

\* p has no "." or ".." component and passes through no symlink
FullyResolved(tree, p) ==
    \A i \in 1..Len(p) : p[i] \notin {".", ".."} /\ ~IsLink(tree, SubSeq(p, 1, i))

\* p is the root or lies below it
InsideRoot(p) == IsPrefix(PROJECT_ROOT, p)

\* the arguments of PathArgs that name a place outside the root of InitTree:
\* by "..", through the symlink lnk, and by an absolute path
EscapingArgs == { Rel(<<"..", "x", "y">>), Rel(<<"lnk", "s">>), Abs(<<"etc">>) }

\* C1: safe_path_for_project raises exactly when the fully resolved path is
\* neither the root nor below it (for relative, "..", absolute and symlinked
\* arguments alike); otherwise it returns that resolved, absolute path, which
\* is the root or has the root as an ancestor.
C1_SafePathConfines ==
    call.op = "safe_path_for_project" =>
        /\ FullyResolved(fs, call.p)
        /\ (call.res.status = "raise") <=> ~InsideRoot(call.p)
        /\ (call.res.status = "raise") <=> (call.path \in EscapingArgs)
        /\ call.res.status = "raise" => call.res.exc = "ValueError"
        /\ call.res.status = "ok" =>
              /\ call.res.value = call.p
              /\ call.p = PROJECT_ROOT \/ PROJECT_ROOT \in Parents(call.p)

\* C1 witness: a symlinked argument was refused after files had been written
C1_Witness ==
    /\ call.op = "safe_path_for_project"
    /\ call.path = Rel(<<"lnk", "s">>)
    /\ call.res.status = "raise"
    /\ IsFile(fs, PROJECT_ROOT \o <<"d", "a">>)

\* C2: a store operation whose path resolves outside the root is refused with
\* an error before it touches storage: the tree (inside and outside the root)
\* is unchanged, nothing is opened or scanned and no command is started.
C2_RefusedBeforeStorage ==
    [][ (call'.op \in StoreOps /\ ~InsideRoot(call'.p)) =>
            /\ call'.res = Raised("ValueError")
            /\ fs' = fs
            /\ call'.opened = {}
            /\ ~call'.started ]_vars

\* C2 witness: run_cmd was refused for a working directory outside the root
C2_Witness ==
    /\ call.op = "run_cmd"
    /\ call.path = Rel(<<"lnk">>)
    /\ call.res = Raised("ValueError")
    /\ ~call.started
    /\ IsFile(fs, PROJECT_ROOT \o <<"a">>)

(***************************************************************************)
(* Claims about a run (checked under Spec).                                *)
(***************************************************************************)

\* the run is in Coding, or agent.invoke has just returned from it
InCoderPhase == pc \in {"coder", "__end__"}

\* the number of steps of the TaskPlan the executor works on
StepCount == Len(task_plan.implementation_steps)

\* the cursor's index; the cursor is made, at 0, by the first invocation
CursorIdx(cs) == IF cs = None THEN 0 ELSE cs.current_step_idx

\* no inference call of the run took longer than the ceiling
NoOverrun == \A i \in DOMAIN processed : ~processed[i].over

Last(seq) == seq[Len(seq)]

\* C3 as stated: with N steps and no overrun, the run is Done, with the
\* cursor at N, after exactly N invocations of coder_agent.
C3_DoneAfterNInvocations ==
    (InCoderPhase /\ NoOverrun /\ invocations = StepCount) =>
        /\ pc = "__end__"
        /\ status = "DONE"
        /\ CursorIdx(coder_state) = StepCount

\* C3 amended: with N steps and no overrun, the run is not Done after N
\* invocations of coder_agent or fewer (the cursor then equals the number of
\* invocations); it is the invocation N+1, which finds no step left, that
\* marks it Done and ends it, with the cursor at N.
C3_DoneAfterNPlusOneInvocations ==
    (InCoderPhase /\ NoOverrun) =>
        /\ invocations <= StepCount + 1
        /\ invocations <= StepCount =>
              /\ pc = "coder"
              /\ status # "DONE"
              /\ CursorIdx(coder_state) = invocations
        /\ invocations = StepCount + 1 =>
              /\ pc = "__end__"
              /\ status = "DONE"
              /\ CursorIdx(coder_state) = StepCount

\* C3 witness: a two-step TaskPlan ended after three invocations, none over
\* the ceiling
C3_Witness ==
    /\ pc = "__end__" /\ status = "DONE" /\ NoOverrun
    /\ StepCount = 2 /\ invocations = 3
    /\ coder_state.current_step_idx = 2

C5_ReadErrorDoesNotAbortRun ==
    [][ (pc = "coder" /\ call'.op = "read_file" /\ call'.res.status = "raise") =>
           /\ pc' \in {"coder", "__end__"}
           /\ CursorIdx(coder_state') = CursorIdx(coder_state) + 1 ]_vars

\* C6: the cursor's index stays within 0..N; within a run it never
\* decreases, only coder_agent changes it, and it grows by exactly one with
\* each step processed and not otherwise.
C6_CursorWithinBounds ==
    /\ [](coder_state # None =>
            /\ 0 <= coder_state.current_step_idx
            /\ coder_state.current_step_idx <= Len(coder_state.task_plan.implementation_steps))
    /\ [][ (pc # "input" /\ pc' # "except") =>
             /\ CursorIdx(coder_state') >= CursorIdx(coder_state)
             /\ CursorIdx(coder_state') # CursorIdx(coder_state) =>
                   /\ pc = "coder"
                   /\ CursorIdx(coder_state') = CursorIdx(coder_state) + 1
             /\ (Len(processed') = Len(processed) + 1) <=>
                   (CursorIdx(coder_state') = CursorIdx(coder_state) + 1) ]_vars

\* C6 witness: the cursor stands at N = 2 after a failed step and a step that
\* overran
C6_Witness ==
    /\ coder_state # None
    /\ coder_state.current_step_idx = 2
    /\ Len(coder_state.task_plan.implementation_steps) = 2
    /\ Len(processed) = 2
    /\ processed[1].result = "error" /\ processed[2].over

\* the last checkpoint was answered "edit" with a non-empty edit text
EditDecided == answer.choice = "edit" /\ answer.text.chars # <<>>

\* the checkpoint an agent revises for
CheckpointOf(agent) == IF agent = "planner" THEN "approval_planner" ELSE "approval_architect"

\* C7: between two stages, edit_request is set exactly when exactly one of
\* previous_plan / previous_task_plan is set, and the saved record then equals
\* the current plan / task_plan; a stage that revises clears edit_request and
\* the saved record in the update that stores the revised record.
C7_EditRequestPaired ==
    /\ []( /\ (edit_request # None) <=>
                 ((previous_plan # None) # (previous_task_plan # None))
           /\ ~(previous_plan # None /\ previous_task_plan # None)
           /\ previous_plan # None => previous_plan = plan
           /\ previous_task_plan # None => previous_task_plan = task_plan )
    /\ [][ (pc \in {"planner", "architect"} /\ pc' \in {"approval_planner", "approval_architect"}
            /\ request'.mode = "revise") =>
              /\ edit_request # None
              /\ edit_request' = None
              /\ previous_plan' = None /\ previous_task_plan' = None
              /\ pc = "planner" => (previous_plan # None /\ plan' \in Plans)
              /\ pc = "architect" =>
                    (previous_task_plan # None /\ task_plan'.kind = "TaskPlan") ]_vars

\* C7 witness: a second edit of the TaskPlan is pending, the first one having
\* been revised and cleared
C7_Witness ==
    /\ pc = "architect"
    /\ edit_request # None /\ previous_task_plan # None /\ previous_plan = None
    /\ previous_task_plan = task_plan
    /\ Len(revisedAt) = 1

\* C8: the stage that follows a checkpoint revises exactly when that
\* checkpoint received a non-empty edit, and then builds its request from the
\* record that checkpoint displayed and from that edit text; no checkpoint
\* visit has its edit used in two revisions, so no revision uses an edit text
\* or a saved record of an earlier visit.
C8_RevisionUsesLatestEdit ==
    /\ [][ (pc \in {"planner", "architect"} /\ pc' # pc) =>
              /\ request'.agent = pc
              /\ request'.visit = visit
              /\ (request'.mode = "revise") <=>
                    (EditDecided /\ answer.node = CheckpointOf(pc))
              /\ request'.mode = "revise" =>
                    /\ request'.edit = answer.text
                    /\ request'.previous = shown
                    /\ revisedAt' = Append(revisedAt, visit) ]_vars
    /\ [](\A i, j \in DOMAIN revisedAt : i # j => revisedAt[i] # revisedAt[j])

\* C8 witness: the TaskPlan is being revised with edit "b" after the Plan was
\* revised with edit "a"
C8_Witness ==
    /\ request.agent = "architect" /\ request.mode = "revise"
    /\ request.edit = Str(<<"b">>)
    /\ request.previous # task_plan
    /\ Len(revisedAt) = 2 /\ revisedAt[1] = 1

\* C9: "edit" followed by an empty or blank edit text acts as approval: the
\* flag becomes "yes", edit_request and the saved records stay unset, the
\* records are unchanged, the next stage is Architecture (from PlanApproval)
\* or Coding (from TaskApproval), and the request that stage sends is no
\* revision.
C9_EmptyEditApproves ==
    /\ [][ (visit' = visit + 1 /\ answer'.choice = "edit" /\ answer'.text.chars = <<>>) =>
              /\ answer'.node = "approval_planner" =>
                    /\ planner_approved' = "yes" /\ pc' = "architect"
                    /\ architect_approved' = architect_approved
              /\ answer'.node = "approval_architect" =>
                    /\ architect_approved' = "yes" /\ pc' = "coder"
                    /\ planner_approved' = planner_approved
              /\ edit_request' = None
              /\ previous_plan' = None /\ previous_task_plan' = None
              /\ plan' = plan /\ task_plan' = task_plan
              /\ UNCHANGED <<user_prompt, coder_state, status, request, revisedAt>> ]_vars
    /\ []( (answer.choice = "edit" /\ answer.text.chars = <<>> /\ request.visit = visit) =>
              request.mode # "revise" )

\* C9 witness: Coding was entered from TaskApproval on an empty edit text
C9_Witness ==
    /\ pc = "coder"
    /\ answer.node = "approval_architect"
    /\ answer.choice = "edit" /\ answer.text.chars = <<>>
    /\ architect_approved = "yes"
    /\ revisedAt # <<>>

\* a revision is pending: an edit was decided and no checkpoint has been
\* reached since (a revised record is always shown at a checkpoint next)
RevisionPending == EditDecided /\ pc \notin {"approval_planner", "approval_architect"}

\* C10 as stated: while a revision is pending, also when the revising stage
\* has failed, the state still holds the last accepted Plan / TaskPlan.
C10_AcceptedRecordHeld ==
    RevisionPending =>
        IF answer.node = "approval_planner" THEN plan = shown ELSE task_plan = shown

\* the stages of a run: Planning, PlanApproval, Architecture, TaskApproval,
\* Coding, Done
Stages == {"planner", "approval_planner", "architect", "approval_architect",
           "coder", "__end__"}

StageMoves ==
    { <<"planner", "approval_planner">>,
      <<"approval_planner", "architect">>, <<"approval_planner", "planner">>,
      <<"architect", "approval_architect">>,
      <<"approval_architect", "coder">>, <<"approval_architect", "architect">>,
      <<"coder", "coder">>, <<"coder", "__end__">> }

\* C11: a run is entered at Planning only; every move from one stage to a
\* stage is one of the eight moves of StageMoves, a checkpoint moving forward
\* exactly when its flag is "yes" and back exactly when it is "edit"; Done is
\* entered from Coding only, with status DONE, and no stage follows it.
C11_StageMoves ==
    /\ [][ (pc \notin Stages /\ pc' \in Stages) =>
              (pc = "input" /\ pc' = "planner") ]_vars
    /\ [][ (pc \in Stages /\ pc' \in Stages) =>
              /\ <<pc, pc'>> \in StageMoves
              /\ pc = "approval_planner" =>
                    /\ (pc' = "architect") <=> (planner_approved' = "yes")
                    /\ (pc' = "planner") <=> (planner_approved' = "edit")
              /\ pc = "approval_architect" =>
                    /\ (pc' = "coder") <=> (architect_approved' = "yes")
                    /\ (pc' = "architect") <=> (architect_approved' = "edit")
              /\ pc' = "__end__" => (pc = "coder" /\ status' = "DONE") ]_vars
    /\ [][ pc = "__end__" => pc' = "input" ]_vars

\* C11 witness: a run that went back once from each checkpoint and twice
\* round Coding has reached Done
C11_Witness ==
    /\ pc = "__end__" /\ status = "DONE"
    /\ revisedAt = <<1, 3>> /\ visit = 4
    /\ Len(processed) = 2

\* C12: the architect runs only with planner_approved = "yes" and a Plan in
\* the state; it is entered from PlanApproval only by an approval of the Plan
\* displayed there, the Plan is not changed between that approval and any
\* later execution of the architect, and the architect's request and the
\* TaskPlan it returns carry exactly that Plan.
C12_TaskPlanFromApprovedPlan ==
    /\ [](pc \in {"architect", "approval_architect"} =>
            (planner_approved = "yes" /\ plan \in Plans))
    /\ [][ (pc = "approval_planner" /\ pc' = "architect") =>
              /\ planner_approved' = "yes"
              /\ plan' = plan /\ shown' = plan ]_vars
    /\ [][ (pc \in {"architect", "approval_architect"} /\ pc' \in Stages) =>
              /\ plan' = plan
              /\ planner_approved' = planner_approved ]_vars
    /\ [][ (pc = "architect" /\ pc' # pc) =>
              /\ request'.agent = "architect"
              /\ request'.plan = plan
              /\ pc' = "approval_architect" => task_plan'.plan = plan ]_vars

\* C12 witness: the architect has revised a TaskPlan for a Plan that was
\* itself revised before it was approved
C12_Witness ==
    /\ pc = "approval_architect"
    /\ request.agent = "architect" /\ request.mode = "revise"
    /\ request.plan = plan /\ task_plan.plan = plan
    /\ revisedAt = <<1, 3>>

\* some inference call of the run took longer than the ceiling
SomeOverrun == \E i \in DOMAIN processed : processed[i].over

\* C13: when the inference call of a step took longer than the ceiling, the
\* invocation that made the call marks the run DONE and the graph ends,
\* whatever steps remain; the step that overran is the last one read and sent
\* to the backend, and main reports the run as complete, not as an error.
C13_OverrunEndsRun ==
    /\ [][ (Len(processed') = Len(processed) + 1 /\ Last(processed').over) =>
              /\ status' = "DONE"
              /\ pc' = "__end__"
              /\ invocations' = invocations + 1 ]_vars
    /\ [][ (pc = "__end__" /\ SomeOverrun) =>
              /\ pc' = "input" /\ outcome' = "complete"
              /\ UNCHANGED <<fs, call, request, processed, invocations>> ]_vars
    /\ [](SomeOverrun =>
            /\ Last(processed).over
            /\ \A i \in 1..(Len(processed) - 1) : ~processed[i].over
            /\ pc \in {"__end__", "input", "exit"}
            /\ pc # "__end__" => outcome = "complete")

\* C13 witness: the first of two steps overran and the run was reported
\* complete with the second step never processed
C13_Witness ==
    /\ pc = "input" /\ outcome = "complete"
    /\ Len(processed) = 1 /\ processed[1].over
    /\ status = "DONE"
    /\ Len(coder_state.task_plan.implementation_steps) = 2
    /\ coder_state.current_step_idx = 1

(***************************************************************************)
(* Further claims about the file tools (checked under SpecStore).          *)
(***************************************************************************)

\* C14 as stated: a command that outlives its timeout makes run_cmd return
\* (exitCode, stdout, stderr) with a non-zero exit code; the expiry is not
\* raised to the caller.
C14_TimeoutReturnsFailureResult ==
    (call.op = "run_cmd" /\ call.started /\ call.cmd.dur > call.timeout) =>
        /\ call.res.status = "ok"
        /\ Len(call.res.value) = 3
        /\ call.res.value[1] # 0

\* C15 as stated: write_file(path, content) directly followed by
\* read_file(path) returns exactly content, for every content.
C15_WriteThenReadReturnsContent ==
    [][ (/\ call.op = "write_file" /\ call.res.status = "ok"
         /\ call'.op = "read_file" /\ call'.path = call.path) =>
            call'.res = Returned(call.content) ]_vars

\* C16: read_file on a path inside the root that does not exist returns the
\* empty content and no error, whatever the tree holds (also when a parent of
\* the path is a file), and leaves the tree as it was: the path still does
\* not exist afterwards.
C16_ReadMissingReturnsEmpty ==
    [][ (call'.op = "read_file" /\ InsideRoot(call'.p) /\ ~Exists(fs, call'.p)) =>
            /\ call'.res = Returned(<<>>)
            /\ fs' = fs
            /\ ~Exists(fs', call'.p) ]_vars

\* C16 witness: d/a was read while d is a file, and nothing was returned
C16_Witness ==
    /\ call.op = "read_file" /\ call.path = Rel(<<"d", "a">>)
    /\ IsFile(fs, PROJECT_ROOT \o <<"d">>)
    /\ ~Exists(fs, PROJECT_ROOT \o <<"d", "a">>)
    /\ call.res = Returned(<<>>)

(***************************************************************************)
(* Further claims about a run.                                             *)
(***************************************************************************)

\* both checkpoints were passed at their first visit, without a revision
ImmediateApproval ==
    visit = 2 /\ revisedAt = <<>> /\ answer.node = "approval_architect"

\* C17 as stated: a run with immediate approval at both checkpoints and no
\* step over the ceiling does not end otherwise than Done, with the cursor at
\* the number of steps of the TaskPlan.
C17_ImmediateApprovalReachesDone ==
    (ImmediateApproval /\ NoOverrun /\ pc \in {"__end__", "except"}) =>
        /\ pc = "__end__"
        /\ status = "DONE"
        /\ CursorIdx(coder_state) = StepCount

\* the parts of an exception's message
Parts(e) == { e.message[i] : i \in DOMAIN e.message }

\* C18 as stated: when the response of the backend cannot be turned into a
\* Plan / TaskPlan, the stage halts with an error that carries the raw
\* response; no record is stored and no checkpoint or later stage follows.
C18_SchemaViolationSurfacesResponse ==
    (pc = "except" /\ exc \in {PlannerError, ArchitectError}) =>
        /\ plan = None /\ task_plan = None
        /\ RawResponse \in Parts(exc)

\* C19 as stated (under SpecLoop, where the backend answers every request and
\* every step is read and run under the ceiling): whatever number of edits
\* the human requests before approving, the run does not fail.
C19_AnyNumberOfEdits == pc # "except"

\* C20: the steps are processed one at a time in list order: the i-th step
\* processed is step i of the TaskPlan, none twice and none skipped; a step
\* is processed only by an invocation that found the cursor on it, after
\* every earlier invocation has returned, and one invocation processes at
\* most one step.
C20_StepsInListOrder ==
    /\ [](pc \in {"coder", "__end__"} =>
            /\ Len(processed) <= StepCount
            /\ \A i \in DOMAIN processed :
                  /\ processed[i].idx = i - 1
                  /\ processed[i].filepath = task_plan.implementation_steps[i].filepath)
    /\ [][ pc = "coder" =>
              /\ Len(processed') \in {Len(processed), Len(processed) + 1}
              /\ Len(processed') = Len(processed) + 1 =>
                    /\ SubSeq(processed', 1, Len(processed)) = processed
                    /\ Last(processed').idx = CursorIdx(coder_state)
                    /\ invocations = Len(processed)
                    /\ invocations' = invocations + 1 ]_vars

\* C20 witness: two steps were processed in order, the first one failing
C20_Witness ==
    /\ pc = "__end__"
    /\ Len(processed) = 2
    /\ processed[1].idx = 0 /\ processed[2].idx = 1
    /\ processed[1].result = "error"
    /\ processed[1].filepath = task_plan.implementation_steps[1].filepath

\* C21 as stated: list_files on a target inside the root that is no directory
\* (a regular file or a missing path) fails with an error instead of
\* returning a value.
C21_ListNonDirectoryFails ==
    (call.op = "list_files" /\ InsideRoot(call.p) /\ ~IsDir(fs, call.p)) =>
        call.res.status = "raise"

\* C24 as stated: the tools offered to the backend with an inference call of
\* Coding are exactly the four store operations write, read, list and run
\* (each of which tests its path argument with safe_path_for_project).
C24_ToolsAreTheFourStoreOps ==
    request.agent = "coder" => request.tools = StoreOps

\* C25: a run started after any earlier runs of the session begins at the
\* planner with the new intent and nothing else in its state: no Plan, no
\* TaskPlan, no cursor, no edit request, no saved record, no approval flag,
\* status not DONE, no superstep counted; the file tree is what the earlier
\* runs left, and the first request is a new one built from the new intent.
C25_RunStartsFresh ==
    /\ [][ (pc = "input" /\ pc' # "input" /\ pc' # "exit") =>
              /\ pc' = "planner"
              /\ user_prompt' # None
              /\ plan' = None /\ task_plan' = None /\ coder_state' = None
              /\ edit_request' = None
              /\ previous_plan' = None /\ previous_task_plan' = None
              /\ planner_approved' = NoStr /\ architect_approved' = NoStr
              /\ status' # "DONE"
              /\ supersteps' = 0
              /\ fs' = fs ]_vars
    /\ [][ (pc = "planner" /\ visit = 0 /\ pc' # pc) =>
              /\ request'.mode = "new"
              /\ request'.prompt = user_prompt
              /\ request'.previous = None /\ request'.edit = None ]_vars

\* C25 witness: a run is at its start with a file in the tree that only an
\* earlier run can have written
C25_Witness ==
    /\ pc = "planner" /\ visit = 0 /\ supersteps = 0
    /\ plan = None /\ status = NoStr
    /\ IsFile(fs, PROJECT_ROOT \o <<"a">>)

\* C26 as stated: write_file to a path inside the root succeeds whatever
\* exists there, read_file then returns the content just written, and the
\* nodes at all other paths that existed are unchanged.
C26_WriteSucceedsAndOverwrites ==
    [][ (call'.op = "write_file" /\ InsideRoot(call'.p)) =>
            /\ call'.res.status = "ok"
            /\ read_file(fs', call'.path) = Returned(call'.content)
            /\ \A q \in DOMAIN fs : q # call'.p => (q \in DOMAIN fs' /\ fs'[q] = fs[q]) ]_vars

\* the executor is about to be invoked with a step left
StepsRemain == pc = "coder" /\ CursorIdx(coder_state) < StepCount

\* the step the cursor is on
CurrentStep == task_plan.implementation_steps[CursorIdx(coder_state) + 1]

\* C27 as stated: an invocation with a step left reads the step's file once
\* and then makes one inference call, given the step's description, its path
\* and the content just read; an invocation with no step left reads nothing,
\* calls nothing and only marks the run DONE.
C27_OneReadOneCallPerInvocation ==
    /\ [][ StepsRemain =>
              /\ call'.op = "read_file" /\ call'.path = CurrentStep.filepath
              /\ Len(processed') = Len(processed) + 1
              /\ request' = CoderRequest(CurrentStep, call'.res.value, visit) ]_vars
    /\ [][ (pc = "coder" /\ ~StepsRemain) =>
              /\ UNCHANGED <<fs, call, request, processed>>
              /\ status' = "DONE" ]_vars

\* Coding was entered in this run: the executor has read a file or returned
CodingEntered == call.op = "read_file" \/ invocations > 0

\* C28 as stated: once Coding is entered the run ends Done, after at most N+1
\* invocations of the executor; it does not end otherwise.
C28_CodingReachesDone ==
    CodingEntered =>
        /\ pc # "except"
        /\ pc # "coder" => status = "DONE"
        /\ invocations <= StepCount + 1

\* C29: the ceiling is compared with the time measured after the call has
\* returned, the step having been sent in full, and also when the call
\* failed; the run is marked DONE exactly when that time is greater than the
\* ceiling (a call that took exactly the ceiling does not end the run), and
\* the cursor has then been moved past the step: the run ends Done with the
\* cursor at k+1 <= N.
C29_OverrunAfterAdvance ==
    /\ [][ Len(processed') = Len(processed) + 1 =>
              /\ request' = CoderRequest(CurrentStep, call'.res.value, visit)
              /\ elapsed' \in Elapsed
              /\ (status' = "DONE") <=> (elapsed' > TIMEOUT_SECONDS)
              /\ elapsed' = TIMEOUT_SECONDS => pc' = "coder"
              /\ elapsed' > TIMEOUT_SECONDS =>
                    /\ pc' = "__end__"
                    /\ coder_state'.current_step_idx = Last(processed').idx + 1
                    /\ coder_state'.current_step_idx <= StepCount ]_vars
    /\ []((pc = "__end__" /\ SomeOverrun) =>
            /\ status = "DONE"
            /\ coder_state.current_step_idx = Last(processed).idx + 1
            /\ coder_state.current_step_idx <= StepCount)

\* C29 witness: the call of the first of two steps failed and overran; the
\* run ended with the cursor at 1
C29_Witness ==
    /\ pc = "__end__" /\ status = "DONE"
    /\ Len(processed) = 1
    /\ processed[1].result = "error" /\ processed[1].over
    /\ elapsed > TIMEOUT_SECONDS
    /\ coder_state.current_step_idx = 1 /\ StepCount = 2

\* the last checkpoint received "edit" and a non-empty edit text
AsksEdit(ans) == ans.choice = "edit" /\ ans.text.chars # <<>>

\* C30: at either checkpoint the run goes back exactly when the answer is
\* "edit" (trimmed, lower-cased) with a non-empty edit text; after any other
\* answer the flag is "yes", whatever it was before, and the run goes
\* forward; "no" and the empty line are such answers.
C30_OnlyEditGoesBack ==
    /\ [][ visit' = visit + 1 =>
              /\ answer'.node = pc
              /\ pc = "approval_planner" =>
                    IF AsksEdit(answer')
                    THEN planner_approved' = "edit" /\ pc' = "planner"
                    ELSE planner_approved' = "yes" /\ pc' = "architect"
              /\ pc = "approval_architect" =>
                    IF AsksEdit(answer')
                    THEN architect_approved' = "edit" /\ pc' = "architect"
                    ELSE architect_approved' = "yes" /\ pc' = "coder" ]_vars
    /\ [](\A a \in {<<"n", "o">>, <<>>, <<"y", "e", "s">>} :
            /\ pc = "approval_planner" =>
                  ApprovalPlannerReturn(Lower(Strip(a)), <<>>, plan) =
                      [planner_approved |-> "yes"]
            /\ pc = "approval_architect" =>
                  ApprovalArchitectReturn(Lower(Strip(a)), <<>>, task_plan) =
                      [architect_approved |-> "yes"])

\* C30 witness: the Plan was approved by an answer other than "edit" after an
\* edit had set the flag to "edit"
C30_Witness ==
    /\ pc = "architect"
    /\ planner_approved = "yes"
    /\ revisedAt = <<1>> /\ visit = 2
    /\ answer.node = "approval_planner" /\ answer.choice = "other"

\* a revising agent returns its revision in this step
RevisionReturned(agent) ==
    /\ pc = agent /\ pc' = "approval_" \o agent
    /\ request'.mode = "revise"

TwoRunsEnded == pc \in {"__end__", "except"} /\ prior # NoLog

\* the two runs were fed the same inputs, as far as each consumed them
SameInputs == IsPrefix(log.inputs, prior.inputs) \/ IsPrefix(prior.inputs, log.inputs)

\* C23 as stated: two runs fed the same intent, the same results of the
\* backend and the same choices of the human go through the same stages and
\* end with the same cursor index and the same records.
C23_SameInputsSameRun ==
    (TwoRunsEnded /\ SameInputs) =>
        /\ log.stages = prior.stages
        /\ log.cursor = prior.cursor
        /\ log.records = prior.records

\* C31: the TaskPlan worked on in Coding is the one the second checkpoint
\* displayed last and approved; the executor's steps are steps of it; and
\* from the first invocation of the executor until Done the cursor keeps its
\* TaskPlan, which is the TaskPlan of the state, with its number of steps.
C31_ApprovedTaskPlanExecuted ==
    /\ [](InCoderPhase =>
            /\ answer.node = "approval_architect" /\ architect_approved = "yes"
            /\ task_plan = shown
            /\ coder_state # None => coder_state.task_plan = task_plan
            /\ \A i \in DOMAIN processed :
                  /\ processed[i].idx < StepCount
                  /\ processed[i].filepath =
                        task_plan.implementation_steps[processed[i].idx + 1].filepath)
    /\ [][ (InCoderPhase /\ InCoderPhase') =>
              /\ task_plan' = task_plan
              /\ coder_state # None =>
                    /\ coder_state'.task_plan = coder_state.task_plan
                    /\ Len(coder_state'.task_plan.implementation_steps) = StepCount ]_vars

\* C31 witness: a run is Done over a TaskPlan of two steps that was revised
\* once and then approved
C31_Witness ==
    /\ pc = "__end__" /\ status = "DONE"
    /\ revisedAt = <<2>> /\ visit = 3
    /\ task_plan = shown /\ coder_state.task_plan = shown
    /\ StepCount = 2 /\ Len(processed) = 2

\* the Plan has been approved and the run is past the first checkpoint
PlanApproved ==
    /\ pc \in {"architect", "approval_architect", "coder"}
    /\ planner_approved = "yes"

\* C32: once the Plan is approved, no step of the run changes plan,
\* user_prompt or planner_approved, none sets previous_plan and none leads
\* back to the planner; a step that ends the run with an error is the end of
\* its state.
C32_ApprovedPlanFrozen ==
    /\ [](pc \in {"architect", "approval_architect", "coder", "__end__"} =>
            /\ planner_approved = "yes" /\ plan # None /\ previous_plan = None)
    /\ [][ (PlanApproved /\ pc' # "except") =>
              /\ plan' = plan
              /\ user_prompt' = user_prompt
              /\ planner_approved' = planner_approved
              /\ previous_plan' = None
              /\ pc' # "planner" ]_vars

\* C32 witness: the TaskPlan was revised once at the second checkpoint and the
\* run is Done with the Plan the first checkpoint approved
C32_Witness ==
    /\ pc = "__end__"
    /\ planner_approved = "yes" /\ architect_approved = "yes"
    /\ revisedAt = <<2>>
    /\ plan # None /\ task_plan.plan = plan /\ previous_plan = None
    /\ Len(processed) >= 1

\* the line main read is one of its commands
IsSentinel(line) == Lower(line.chars) \in Sentinels
IsGraphCommand(line) == Lower(line.chars) = GRAPH

\* C33: the error that ended a run is caught and reported, and main is back
\* at its prompt, where a next run can start, from a fresh state and with the
\* line typed as its intent; the session ends only at the prompt and only on
\* a sentinel; a sentinel or the graph command starts no run.
C33_ErrorKeepsSession ==
    /\ [][ pc = "except" =>
              /\ pc' = "input" /\ outcome' = "error" /\ exc' = exc ]_vars
    /\ [](pc = "input" => ENABLED MainInvoke)
    /\ [][ pc' = "exit" => (pc = "input" /\ IsSentinel(user_input')) ]_vars
    /\ [][ (pc = "input" /\ pc' = "planner") =>
              /\ ~IsSentinel(user_input') /\ ~IsGraphCommand(user_input')
              /\ user_prompt' = user_input'
              /\ plan' = None /\ task_plan' = None /\ coder_state' = None ]_vars
    /\ [][ (pc = "input" /\ user_input' # user_input
            /\ (IsSentinel(user_input') \/ IsGraphCommand(user_input'))) =>
              /\ pc' \in {"input", "exit"}
              /\ UNCHANGED <<graphVars, supersteps, fs>> ]_vars

\* C33 witness: a run has started after the run before it ended with an error
\* that main reported; the tree still holds what that run wrote
C33_Witness ==
    /\ pc = "input" /\ outcome = "error"
    /\ exc.type = "ValueError"
    /\ user_input = Str(<<"a", "p", "p">>)
    /\ plan = None
    /\ IsFile(fs, PROJECT_ROOT \o <<"a">>)

(***************************************************************************)
(* Claims about the sample game (checked under SpecGame and SpecAI).       *)
(***************************************************************************)

HumanVsAI == game_mode = "human_vs_ai"

\* C34: in human-vs-AI mode the AI has replied to every move of the human
\* that did not end the game, X is never the winner of the board, and no
\* step taken in this mode adds to the 'human' score.
C34_HumanNeverWinsAgainstAI ==
    /\ []((HumanVsAI /\ game_state = STATE_PLAYING) =>
            /\ current_player = PLAYER_X
            /\ Marks(grid, PLAYER_X) = Marks(grid, PLAYER_O)
            /\ check_winner(grid) = NoStr)
    /\ []((HumanVsAI /\ game_state = STATE_GAME_OVER) => check_winner(grid) # PLAYER_X)
    /\ [][ (HumanVsAI /\ game_mode' = "human_vs_ai") =>
              scores'.human = scores.human ]_vars
    /\ [][ (HumanVsAI /\ game_state = STATE_PLAYING /\ grid' # grid) =>
              /\ ai_call'.fn = "get_best_move"
              /\ ai_call'.move # NoMove
              /\ grid'[ai_call'.move] = PLAYER_O
              /\ \/ Marks(grid', PLAYER_X) = Marks(grid, PLAYER_X) + 1
                 \/ game_state' = STATE_GAME_OVER ]_vars

\* C34 witness: a game against the AI is over and O has won it
C34_Witness ==
    /\ HumanVsAI /\ game_state = STATE_GAME_OVER
    /\ check_winner(grid) = PLAYER_O
    /\ scores.ai = 1 /\ scores.human = 0
    /\ ai_call.fn = "get_best_move"

Total(sc) == sc.human + sc.ai + sc.draws

\* C36: the game state moves menu -> playing -> game_over -> menu only; the
\* board changes only while playing, by marks put on empty cells of the
\* board, and when a game starts, with an empty board; there are as many X
\* as O or one more; a game that ends adds 1 to one score, nothing else
\* changes the scores, and their sum is the number of games that ended.
C36_GameStateMachine ==
    /\ [](/\ DOMAIN grid = Cells
          /\ Marks(grid, PLAYER_X) - Marks(grid, PLAYER_O) \in {0, 1}
          /\ Total(scores) = finished)
    /\ [][ game_state' # game_state =>
              <<game_state, game_state'>> \in
                  { <<STATE_MENU, STATE_PLAYING>>, <<STATE_PLAYING, STATE_GAME_OVER>>,
                    <<STATE_GAME_OVER, STATE_MENU>> } ]_vars
    /\ [][ grid' # grid =>
              \/ /\ game_state = STATE_MENU /\ game_state' = STATE_PLAYING
                 /\ grid' = EmptyGrid
              \/ /\ game_state = STATE_PLAYING
                 /\ \A c \in Cells :
                       grid'[c] # grid[c] =>
                           grid[c] = NoStr /\ grid'[c] \in {PLAYER_X, PLAYER_O} ]_vars
    /\ [][ IF game_state = STATE_PLAYING /\ game_state' = STATE_GAME_OVER
           THEN /\ finished' = finished + 1
                /\ Total(scores') = Total(scores) + 1
                /\ scores'.human >= scores.human
                /\ scores'.ai >= scores.ai
                /\ scores'.draws >= scores.draws
           ELSE scores' = scores /\ finished' = finished ]_vars

\* C36 witness: two games were played to the end, one won by X and one
\* drawn, and the controller is back at the menu
C36_Witness ==
    /\ game_state = STATE_MENU
    /\ finished = 2
    /\ scores = [human |-> 1, ai |-> 0, draws |-> 1]

====
